---- MODULE Spec2Model ----
(***************************************************************************)
(* SpeedSQL: the connection's transaction and savepoint API                *)
(* (src/src/core/database.cpp), the statements that write table rows       *)
(* (src/src/core/executor.cpp) and the page cache they go through          *)
(* (src/src/storage/buffer_pool.cpp).                                      *)
(*                                                                         *)
(* The connection is one opened with speedsql_open on a file: the flags    *)
(* are READWRITE|CREATE, so db->wal stays null and every `if (db->wal)`    *)
(* branch is skipped.  A behaviour is the life of that one connection,     *)
(* from speedsql_open of a new file up to its close.                       *)
(* One table u(v INTEGER) is modelled.  Its B+ tree is                     *)
(* a single root leaf: a 16 KiB leaf holds several hundred 32-byte cells,  *)
(* and MaxRows keeps the leaf far below the first split.                   *)
(***************************************************************************)
EXTENDS Integers, Sequences, FiniteSets, TLC

\* ---- bounds of the model ------------------------------------------------
MaxTxnId    == 3   \* header.txn_id is not advanced past this value
MaxRowid    == 2   \* last_rowid is not advanced past this value
MaxChanges  == 2   \* total_changes is not advanced past this value
MaxRows     == 2   \* rows held by the leaf of u
MaxPages    == 1   \* data pages in the database file (after header page 0)

\* ---- program constants --------------------------------------------------
MAX_SAVEPOINTS == 32   \* savepoints[32], "savepoint_count >= 32"
SP_NAME_MAX    == 63   \* sizeof(sp->name) - 1 for char name[64]
FIRST_TXN_ID   == 1    \* header.txn_id of a new database

Vals  == {1, 2}               \* values of column v
Names == {<<1>>, <<2>>}       \* savepoint names, as character sequences

VARIABLES
    txn_state,      \* db->txn_state
    current_txn,    \* db->current_txn
    header_txn_id,  \* db->header.txn_id (in memory)
    savepoints,     \* db->savepoints[0 .. savepoint_count-1]
    last_rowid,     \* db->last_rowid
    total_changes,  \* db->total_changes
    tables,         \* schema cache db->tables[]: root page of u, or empty
    pool,           \* buffer pool: page id -> [state, data]
    file,           \* database file: data pages 1 .. Len(file)
    op,             \* the API call that ran last ("step" for a statement)
    rc,             \* the code it returned
    h_begin_rows,   \* history: rows a scan of u returned at the BEGIN of the
                    \* open transaction
    h_sp,           \* history: per live savepoint, the rows of u, the two
                    \* counters and the transaction id at its creation
    h_wrote,        \* history: a write statement ran in the open transaction
    h_last          \* history: markers popped and counters moved by the last
                    \* call

\* A B+ tree used on its own through btree_create / btree_insert /
\* btree_find / btree_delete and a cursor: the variables of SpecBT.
VARIABLES
    bt_pages,       \* the pages of the tree: page id -> node
    bt_root,        \* tree->root_page
    bt_call,        \* the btree call that ran last, its key, code and output
    bt_ref          \* history: key -> value of the last insert that returned
                    \* OK and no delete that returned OK followed (0: none)

\* A buffer pool used on its own through buffer_pool_init / buffer_pool_get /
\* buffer_pool_unpin / buffer_pool_new_page / buffer_pool_flush on one file:
\* the variables of SpecPool.
VARIABLES
    bp_frames,      \* page id in the hash table and the LRU list -> the buffer
                    \* page that caches it: its pin count, state, data
    bp_free,        \* number of buffer pages on pool->free_list
    bp_used,        \* pool->used_count
    bp_lru,         \* the LRU list, pool->lru_head first
    bp_hash,        \* pool->hash_table: bucket in use -> chain of page ids,
                    \* head first
    bp_disk,        \* the file: the block written for page id p at p + 1
    bp_cipher,      \* pool->cipher_id ("NONE": no cipher context)
    bp_call,        \* the pool call that ran last, its page id, result, victim
    bp_last         \* history: page id -> bytes its last holder stored before
                    \* it unpinned the page dirty

\* A write-ahead log used on its own through wal_init / wal_write /
\* wal_commit / wal_rollback / wal_checkpoint / wal_recover / wal_close next
\* to one database file: the variables of SpecWal.
VARIABLES
    wal,            \* the wal_t of the session: open or not, current_lsn,
                    \* checkpoint_lsn and the records in wal->buffer
    wal_file,       \* the "-wal" file: its header and the records after it
    wal_db,         \* the database file: page id -> bytes written (0: none)
    wal_call        \* the call that ran last, the open transaction and the
                    \* history of the run

\* A connection used through speedsql_open / speedsql_exec and one prepared
\* statement at a time (speedsql_prepare / speedsql_bind_int / speedsql_step /
\* speedsql_reset / speedsql_finalize): the variables of SpecSql.
VARIABLES
    st_conn,        \* the connection: open, in memory or on a file, table t
                    \* and its rows in cursor order, the transaction flag,
                    \* and the parser's static param_count of the process
    st_stmt,        \* the speedsql_stmt (live: FALSE when there is none)
    st_call         \* the call that ran last, its code and row, and the
                    \* history of the statement's runs

\* Two threads on one tree: a writer in btree_insert / btree_delete and a
\* reader in btree_find or in a cursor call, both on the same leaf: the
\* variable of SpecLock.
VARIABLES
    lk              \* tree->lock (writer: held exclusively, readers: shared
                    \* holders), the leaf (count: key_count, slots: the keys
                    \* the offset array leads to), where the writer is in
                    \* its call, where the reader is, and what the reader's
                    \* last read saw

\* A database file through its life: speedsql_open on an empty file, one
\* table t, inserts, the transaction calls, speedsql_key, the cache giving up
\* the root page of t, speedsql_close and speedsql_open on the file again:
\* the variable of SpecFile.
VARIABLES
    fd              \* conn: a connection is open; hdr: page 0 of the file;
                    \* pages: the blocks of page ids 1 .. Len(pages); tbl: the
                    \* schema cache; buf: the buffer page of the root of t;
                    \* key: the cipher context; last_rowid, txn, sp (the
                    \* last_rowid a live savepoint saved, -1: none); call:
                    \* the call that ran last; closed: what the connection
                    \* held when it was closed; damaged: the header was
                    \* changed behind the engine's back

db_vars == <<txn_state, current_txn, header_txn_id, savepoints, last_rowid,
             total_changes, tables, pool, file, op, rc,
             h_begin_rows, h_sp, h_wrote, h_last>>

bt_vars == <<bt_pages, bt_root, bt_call, bt_ref>>

bp_vars == <<bp_frames, bp_free, bp_used, bp_lru, bp_hash, bp_disk, bp_cipher,
             bp_call, bp_last>>

wal_vars == <<wal, wal_file, wal_db, wal_call>>

sql_vars == <<st_conn, st_stmt, st_call>>

\* the variables the connection's calls do not touch
unit_vars == <<bt_vars, bp_vars, wal_vars, sql_vars, lk, fd>>

\* the variables the calls on the tree do not touch
tree_frame == <<db_vars, bp_vars, wal_vars, sql_vars, lk, fd>>

\* the variables the calls on the pool do not touch
pool_frame == <<db_vars, bt_vars, wal_vars, sql_vars, lk, fd>>

\* the variables the calls on the log do not touch
wal_frame == <<db_vars, bt_vars, bp_vars, sql_vars, lk, fd>>

\* the variables the statement calls do not touch
sql_frame == <<db_vars, bt_vars, bp_vars, wal_vars, lk, fd>>

\* the variables the two threads on the tree do not touch
lock_frame == <<db_vars, bt_vars, bp_vars, wal_vars, sql_vars, fd>>

\* the variables the calls on the database file do not touch
file_frame == <<db_vars, bt_vars, bp_vars, wal_vars, sql_vars, lk>>

vars == <<db_vars, unit_vars>>

conn_vars == <<txn_state, current_txn, header_txn_id, savepoints, last_rowid,
               total_changes>>
disk_vars == <<tables, pool, file>>
hist_vars == <<h_begin_rows, h_sp, h_wrote>>

NoEffect == [popped |-> 0, restored |-> FALSE]

\* ---- pages --------------------------------------------------------------
ZeroPage      == [kind |-> "zero",   root |-> 0, rows |-> <<>>]
LeafPage(rs)  == [kind |-> "leaf",   root |-> 0, rows |-> rs]

Min(a, b) == IF a < b THEN a ELSE b

EmptySlot == [state |-> "BUF_INVALID", data |-> ZeroPage]

\* buffer_pool_init: every slot starts on the free list
buffer_pool_init == [p \in 1..MaxPages |-> EmptySlot]

\* ---- buffer pool --------------------------------------------------------
\* buffer_pool_get: a resident page is returned as it is; a page that is not
\* resident is read from the file into a free slot and becomes clean.  A page
\* beyond the end of the file cannot be read and no slot is taken.
buffer_pool_get(pl, f, p) ==
    IF pl[p].state # "BUF_INVALID" THEN pl
    ELSE IF p \in 1..Len(f)
         THEN [pl EXCEPT ![p] = [state |-> "BUF_CLEAN", data |-> f[p]]]
         ELSE pl

\* buffer_pool_unpin(page, dirty) after the caller changed page->data
buffer_pool_unpin(pl, p, data, dirty) ==
    [pl EXCEPT ![p] = [state |-> IF dirty THEN "BUF_DIRTY" ELSE pl[p].state,
                       data  |-> data]]

DirtyPages(pl) == {p \in DOMAIN pl : pl[p].state = "BUF_DIRTY"}

\* buffer_pool_flush: every dirty page is written and marked clean.  When the
\* write of page `bad` fails, the pages in `done` were written before it and
\* the others stay dirty; bad = 0 is a flush without a failing write.
buffer_pool_flush(pl, f, bad, done) ==
    LET written == IF bad = 0 THEN DirtyPages(pl) ELSE done
    IN  [pool |-> [p \in DOMAIN pl |->
                      IF p \in written
                      THEN [state |-> "BUF_CLEAN", data |-> pl[p].data]
                      ELSE pl[p]],
         file |-> [p \in 1..Len(f) |->
                      IF p \in written THEN pl[p].data ELSE f[p]],
         rc   |-> IF bad = 0 THEN "OK" ELSE "IOERR"]

\* The ways one flush can go: no failure, or a failure at a dirty page after
\* any set of the other dirty pages has been written.
FlushOutcomes(pl) ==
    {<<0, {}>>} \cup
    UNION {{<<b, d>> : d \in SUBSET (DirtyPages(pl) \ {b})} : b \in DirtyPages(pl)}

\* buffer_pool_new_page: the page id is the file size in pages; the file is
\* extended by a zeroed page and the slot is dirty.
buffer_pool_new_page(pl, f) ==
    LET id == Len(f) + 1
    IN  [id   |-> id,
         file |-> Append(f, ZeroPage),
         pool |-> [pl EXCEPT ![id] = [state |-> "BUF_DIRTY", data |-> ZeroPage]]]

\* buffer_pool_invalidate_dirty: every dirty page is dropped without being
\* written and its slot goes back to the free list.
buffer_pool_invalidate_dirty(pl) ==
    [p \in DOMAIN pl |-> IF pl[p].state = "BUF_DIRTY" THEN EmptySlot ELSE pl[p]]

\* ---- B+ tree of table u ---------------------------------------------------
\* find_leaf / btree_cursor_first from the root.  A root that is not a leaf
\* page (a zeroed page or the schema page) is walked as an internal node:
\* child 0 of it is page 0, the header page, whose child pointer lies beyond
\* the file, so buffer_pool_get fails and no leaf is found (0 here).
find_leaf(pl, f, root) ==
    LET pl1 == buffer_pool_get(pl, f, root)
    IN  [pool |-> pl1,
         leaf |-> IF pl1[root].state # "BUF_INVALID"
                     /\ pl1[root].data.kind = "leaf"
                  THEN root ELSE 0]

\* search_leaf with a key the comparator finds equal to every stored key
\* (rows are stored under zero-length keys, and the keys handed to
\* btree_delete come from the cursor): the first probe, slot count/2, hits.
RemoveMid(rows) ==
    LET i == (Len(rows) \div 2) + 1
    IN  SubSeq(rows, 1, i - 1) \o SubSeq(rows, i + 1, Len(rows))

\* btree_delete called n times with such keys
RECURSIVE btree_delete_n(_, _)
btree_delete_n(rows, n) ==
    IF n = 0 \/ rows = <<>> THEN rows ELSE btree_delete_n(RemoveMid(rows), n - 1)

\* execute_update's apply loop: for each collected row, btree_delete and then
\* btree_insert under the cursor's key; the insert finds the key present
\* (SPEEDSQL_CONSTRAINT, ignored) unless the leaf has become empty.
RECURSIVE apply_updates(_, _)
apply_updates(rows, news) ==
    IF news = <<>> THEN rows
    ELSE LET r1 == IF rows = <<>> THEN rows ELSE RemoveMid(rows)
             r2 == IF r1 = <<>> THEN <<Head(news)>> ELSE r1
         IN  apply_updates(r2, Tail(news))

\* the WHERE clauses DELETE and UPDATE can act on: a clause that names a
\* column passes no row (its column_ref.index stays -1, eval_expr returns
\* RANGE and the filter result stays NULL); a clause without columns, or no
\* clause, passes every row
Filters == {{}, Vals}

\* rows of the cursor scan that pass the WHERE filter v IN w
SelectSeq2(rows, w) == SelectSeq(rows, LAMBDA v : v \in w)

\* The rows a full scan of u returns on this connection (SELECT * FROM u)
ReadableRows ==
    IF tables = <<>> THEN <<>>
    ELSE LET r  == tables[1]
             pg == IF pool[r].state # "BUF_INVALID" THEN pool[r].data
                   ELSE file[r]
         IN  IF pg.kind = "leaf" THEN pg.rows ELSE <<>>

\* strncpy(sp->name, name, sizeof(sp->name) - 1)
StoredName(name) == SubSeq(name, 1, Min(Len(name), SP_NAME_MAX))

\* index (1-based) of the last live savepoint whose stored name is `name`, or 0
FindSavepoint(name) ==
    LET hits == {i \in 1..Len(savepoints) : savepoints[i].name = name}
    IN  IF hits = {} THEN 0 ELSE CHOOSE i \in hits : \A j \in hits : j <= i

\* ---- B+ tree on its own (btree.cpp) -----------------------------------------
\* Keys are blobs of KeyLen bytes, written here as the integers their bytes
\* spell (memcmp order is integer order); values are blobs of ValLen bytes.
\* Cells of that size make a 16 KiB leaf hold three of them, and an internal
\* node several hundred separators.  The tree's pages stay resident in the
\* pool (no flush, no eviction), so a page changed and unpinned with
\* dirty = false keeps its change.
MaxKey     == 4   \* keys are 1 .. MaxKey
MaxBtPages == 4   \* pages the tree may allocate

PAGE_SIZE                  == 16384   \* SPEEDSQL_PAGE_SIZE
BTREE_LEAF_HEADER_SIZE     == 58      \* sizeof(page_header_t) + 2 + 8 + 8
BTREE_INTERNAL_HEADER_SIZE == 42      \* sizeof(page_header_t) + 2
PAGE_ID_SIZE               == 8       \* sizeof(page_id_t)
KeyLen == 8
ValLen == 5000

BtKeys == 1..MaxKey
BtVals == {1, 2}

\* key_len (2) + value_len (2) + key + value
CellSize == 4 + KeyLen + ValLen

\* A leaf: its live cells in offset-array order, the number of cells carved
\* from the page tail since the page was initialised (free_end only moves
\* down), and the next-leaf pointer (0: INVALID_PAGE_ID).
BtLeaf(cells, alloc, next) ==
    [kind |-> "leaf", cells |-> cells, alloc |-> alloc, next |-> next,
     keys |-> <<>>, children |-> <<>>]

\* An internal node: separators and child page ids
BtInternal(keys, children) ==
    [kind |-> "internal", cells |-> <<>>, alloc |-> 0, next |-> 0,
     keys |-> keys, children |-> children]

InsertAt(seq, idx, x) == SubSeq(seq, 1, idx) \o <<x>> \o SubSeq(seq, idx + 1, Len(seq))

\* search_internal: binary search, lo and hi 0-based as in the code;
\* `c <= 0` moves hi, so a key equal to a separator goes to its left child.
RECURSIVE search_internal_from(_, _, _, _)
search_internal_from(keys, key, lo, hi) ==
    IF lo >= hi THEN lo
    ELSE LET mid == (lo + hi) \div 2
         IN  IF key <= keys[mid + 1]
             THEN search_internal_from(keys, key, lo, mid)
             ELSE search_internal_from(keys, key, mid + 1, hi)

search_internal(keys, key) == search_internal_from(keys, key, 0, Len(keys))

\* search_leaf: binary search over the offset array; [idx, exact]
RECURSIVE search_leaf_from(_, _, _, _)
search_leaf_from(cells, key, lo, hi) ==
    IF lo >= hi THEN [idx |-> lo, exact |-> FALSE]
    ELSE LET mid == (lo + hi) \div 2
         IN  IF key < cells[mid + 1].key
             THEN search_leaf_from(cells, key, lo, mid)
             ELSE IF key > cells[mid + 1].key
             THEN search_leaf_from(cells, key, mid + 1, hi)
             ELSE [idx |-> mid, exact |-> TRUE]

search_leaf(cells, key) == search_leaf_from(cells, key, 0, Len(cells))

\* hdr->free_end - hdr->free_start - count * sizeof(uint16_t)
LeafFree(leaf) ==
    (PAGE_SIZE - leaf.alloc * CellSize) - BTREE_LEAF_HEADER_SIZE
        - Len(leaf.cells) * 2

\* insert_into_leaf: Full before the key is looked at, then Constraint
insert_into_leaf(leaf, key, val) ==
    IF LeafFree(leaf) < CellSize + 2
    THEN [rc |-> "FULL", leaf |-> leaf]
    ELSE LET s == search_leaf(leaf.cells, key)
         IN  IF s.exact
             THEN [rc |-> "CONSTRAINT", leaf |-> leaf]
             ELSE [rc |-> "OK",
                   leaf |-> BtLeaf(InsertAt(leaf.cells, s.idx,
                                            [key |-> key, val |-> val]),
                                   leaf.alloc + 1, leaf.next)]

\* find_leaf / find_leaf_with_path: the leaf the key is routed to and the
\* internal nodes passed (the root, when it is internal)
find_leaf_with_path(pages, root, key) ==
    IF pages[root].kind = "leaf"
    THEN [leaf |-> root, path |-> <<>>]
    ELSE LET idx == search_internal(pages[root].keys, key)
         IN  [leaf |-> pages[root].children[idx + 1], path |-> <<root>>]

\* split_leaf: the new leaf takes the cells from split_point on and is linked
\* after the old one; the old leaf keeps its free_end.  The key then goes
\* into one of the two with insert_into_leaf, whose code is returned.
split_leaf(pages, lid, key, val) ==
    LET leaf   == pages[lid]
        count  == Len(leaf.cells)
        new_id == Len(pages) + 1
        s      == search_leaf(leaf.cells, key)
        half   == (count + 1) \div 2
        split_point == IF s.idx < half THEN half - 1 ELSE half
        new0   == BtLeaf(SubSeq(leaf.cells, split_point + 1, count),
                         count - split_point, leaf.next)
        old0   == BtLeaf(SubSeq(leaf.cells, 1, split_point), leaf.alloc, new_id)
        ins    == IF s.idx <= split_point
                  THEN insert_into_leaf(old0, key, val)
                  ELSE insert_into_leaf(new0, key, val)
        old1   == IF s.idx <= split_point THEN ins.leaf ELSE old0
        new1   == IF s.idx <= split_point THEN new0 ELSE ins.leaf
    IN  [rc     |-> ins.rc,
         pages  |-> Append([pages EXCEPT ![lid] = old1], new1),
         new_id |-> new_id,
         sep    |-> IF new1.cells = <<>> THEN 0 ELSE new1.cells[1].key]

\* insert_into_internal: Full when the node has no room for one more entry
insert_into_internal(node, key, left, right) ==
    LET count == Len(node.keys)
        idx   == search_internal(node.keys, key)
    IN  IF BTREE_INTERNAL_HEADER_SIZE + (count + 1) * (PAGE_ID_SIZE + KeyLen)
               + PAGE_ID_SIZE > PAGE_SIZE
        THEN [rc |-> "FULL", node |-> node]
        ELSE [rc |-> "OK",
              node |-> BtInternal(InsertAt(node.keys, idx, key),
                                  SubSeq(node.children, 1, idx)
                                     \o <<left, right>>
                                     \o SubSeq(node.children, idx + 2,
                                               Len(node.children)))]

\* insert_into_parent: create_new_root when the path is empty, else
\* insert_into_internal on the parent
insert_into_parent(pages, root, path, left, right, sep) ==
    IF path = <<>>
    THEN [rc    |-> "OK",
          pages |-> Append(pages, BtInternal(<<sep>>, <<left, right>>)),
          root  |-> Len(pages) + 1]
    ELSE LET r == insert_into_internal(pages[path[1]], sep, left, right)
         IN  [rc    |-> r.rc,
              pages |-> [pages EXCEPT ![path[1]] = r.node],
              root  |-> root]

\* btree_insert as a function of the tree: [rc, pages, root]
btree_insert_result(pages, root, key, val) ==
    LET fl  == find_leaf_with_path(pages, root, key)
        ins == insert_into_leaf(pages[fl.leaf], key, val)
    IN  IF ins.rc # "FULL"
        THEN [rc    |-> ins.rc,
              pages |-> [pages EXCEPT ![fl.leaf] = ins.leaf],
              root  |-> root]
        ELSE LET sl == split_leaf(pages, fl.leaf, key, val)
             IN  IF sl.rc # "OK"
                 THEN [rc |-> sl.rc, pages |-> sl.pages, root |-> root]
                 ELSE insert_into_parent(sl.pages, root, fl.path,
                                         fl.leaf, sl.new_id, sl.sep)

\* btree_find as a function of the tree: [rc, out]
btree_find_result(pages, root, key) ==
    LET fl == find_leaf_with_path(pages, root, key)
        s  == search_leaf(pages[fl.leaf].cells, key)
    IN  IF s.exact
        THEN [rc |-> "OK", out |-> <<pages[fl.leaf].cells[s.idx + 1].val>>]
        ELSE [rc |-> "NOTFOUND", out |-> <<>>]

\* btree_delete as a function of the tree: the offset is taken out of the
\* array, the cell's bytes are not given back
btree_delete_result(pages, root, key) ==
    LET fl   == find_leaf_with_path(pages, root, key)
        leaf == pages[fl.leaf]
        s    == search_leaf(leaf.cells, key)
    IN  IF s.exact
        THEN [rc    |-> "OK",
              pages |-> [pages EXCEPT ![fl.leaf] =
                            BtLeaf(SubSeq(leaf.cells, 1, s.idx)
                                      \o SubSeq(leaf.cells, s.idx + 2,
                                                Len(leaf.cells)),
                                   leaf.alloc, leaf.next)]]
        ELSE [rc |-> "NOTFOUND", pages |-> pages]

\* btree_cursor_first, then btree_cursor_key / btree_cursor_next until Done:
\* the keys returned.  first starts at the leftmost leaf and is invalid when
\* that leaf is empty; next follows next_leaf and returns Done at an empty
\* leaf or at INVALID_PAGE_ID.
RECURSIVE cursor_keys_from(_, _)
cursor_keys_from(pages, p) ==
    IF pages[p].cells = <<>> THEN <<>>
    ELSE [i \in 1..Len(pages[p].cells) |-> pages[p].cells[i].key]
            \o (IF pages[p].next = 0 THEN <<>>
                ELSE cursor_keys_from(pages, pages[p].next))

cursor_scan(pages, root) ==
    cursor_keys_from(pages, IF pages[root].kind = "leaf" THEN root
                            ELSE pages[root].children[1])

\* ---- initial state: a new database file opened by speedsql_open, and a
\* tree just made by btree_create -----------------------------------------
\* ---- the buffer pool (src/storage/buffer_pool.cpp) --------------------------
MaxPageId == 16   \* page ids are 0 .. MaxPageId
MaxPin    == 2    \* pins one page may carry at a time

POOL_MIN_PAGES  == 16     \* buffer_pool_init: minimum page_count
INVALID_PAGE_ID == -1     \* (page_id_t)-1
AES_BLOCK       == 16     \* block of the pkcs7 padding in aes_cbc_encrypt

\* pages 0 .. HeldCount - 1 stay pinned by their first holder: one buffer
\* page of the smallest pool is left to the others
HeldCount == POOL_MIN_PAGES - 1

PageIds  == 0..MaxPageId
LongHeld == 0..(HeldCount - 1)
PoolVals == {1, 2}                \* bytes a holder stores in a page; 0: zeroed
BadPages == {MaxPageId - 1}       \* pages whose block of the file may refuse a write
Ciphers  == {"NONE", "AES_256_GCM", "AES_256_CBC"}

\* a pool made with the smallest cache: page_count and hash_size
PoolFrames == POOL_MIN_PAGES
HashSize   == PoolFrames + PoolFrames \div 4

NoFrame == [res |-> FALSE, pin |-> 0, dirty |-> FALSE, data |-> 0]

\* the pool's tables hold an entry for what is in them only
Put(f, k, x) == [q \in DOMAIN f \cup {k} |-> IF q = k THEN x ELSE f[q]]

Drop(f, k) == [q \in DOMAIN f \ {k} |-> f[q]]

\* the buffer page that caches page p, if one does
FrameOf(frames, p) == IF p \in DOMAIN frames THEN frames[p] ELSE NoFrame

\* the chain of bucket b
ChainOf(table, b) == IF b \in DOMAIN table THEN table[b] ELSE <<>>

PutChain(table, b, chain) ==
    IF chain = <<>> THEN Drop(table, b) ELSE Put(table, b, chain)

\* page_hash: ((page_id * 0x9E3779B97F4A7C15) mod 2^64) >> 44, mod size,
\* computed on the four 16-bit limbs of the multiplier, lowest first
FIB_LIMBS == <<31765, 32586, 31161, 40503>>

page_hash(page_id, size) ==
    LET l0 == page_id * FIB_LIMBS[1]
        l1 == page_id * FIB_LIMBS[2] + l0 \div 65536
        l2 == page_id * FIB_LIMBS[3] + l1 \div 65536
        l3 == (page_id * FIB_LIMBS[4] + l2 \div 65536) % 65536
    IN  (l3 * 16 + (l2 % 65536) \div 4096) % size

hash_insert(table, p) ==
    LET b == page_hash(p, HashSize)
    IN  PutChain(table, b, <<p>> \o ChainOf(table, b))

hash_remove(table, p) ==
    LET b == page_hash(p, HashSize)
    IN  PutChain(table, b, SelectSeq(ChainOf(table, b), LAMBDA q : q # p))

lru_remove(lru, p) == SelectSeq(lru, LAMBDA q : q # p)

lru_insert_front(lru, p) == <<p>> \o lru

\* provider->tag_size
TagSize(c) ==
    CASE c = "AES_256_GCM" -> 16
      [] c = "AES_256_CBC" -> 32
      [] OTHER -> 0

\* encrypt_page: the block write_page_encrypted hands to file_write. The tag
\* is written as what the provider authenticates: the IV or AAD taken from
\* the page id, the bytes, and the length of ciphertext covered. aes_cbc_encrypt
\* pads the page by one block and tags the padded ciphertext.
encrypt_page(c, page_id, data) ==
    CASE c = "AES_256_GCM" ->
            [cipher |-> c, iv |-> page_id, data |-> data,
             tag |-> <<page_id, data, PAGE_SIZE>>]
      [] c = "AES_256_CBC" ->
            [cipher |-> c, iv |-> page_id, data |-> data,
             tag |-> <<page_id, data, PAGE_SIZE + AES_BLOCK>>]
      [] OTHER ->
            [cipher |-> c, iv |-> 0, data |-> data, tag |-> <<>>]

\* decrypt_page: the provider recomputes the tag over page_size bytes of
\* ciphertext and compares it with the stored one
decrypt_page(c, page_id, block) ==
    IF c = "NONE"
    THEN [rc |-> "OK", data |-> block.data]
    ELSE IF block.tag = <<page_id, block.data, PAGE_SIZE>>
         THEN [rc |-> "OK", data |-> block.data]
         ELSE [rc |-> "CORRUPT", data |-> 0]

\* file_write of one block at page_id * block size
file_write_page(disk, page_id, block) ==
    IF page_id < Len(disk)
    THEN [disk EXCEPT ![page_id + 1] = block]
    ELSE Append(disk, block)

\* read_page_encrypted: a short read past the end of the file is an I/O error
read_page_encrypted(c, disk, page_id) ==
    IF page_id < Len(disk)
    THEN decrypt_page(c, page_id, disk[page_id + 1])
    ELSE [rc |-> "IOERR", data |-> 0]

\* hmac_sha256_simple writes a 32-byte tag into the 16-byte tag[] of
\* encrypt_page: the call either goes on with the tag it wrote or the
\* process is stopped
WriteOutcomes(c) ==
    IF c = "AES_256_CBC" THEN {"tag_kept", "abort"} ELSE {"written"}

\* get_victim taking pool->lru_tail whatever its pin count
lru_victim_any(st, i) ==
    IF i = 0 THEN INVALID_PAGE_ID ELSE st.lru[i]

\* get_victim, the walk from pool->lru_tail towards the head
RECURSIVE lru_victim(_, _)
lru_victim(st, i) ==
    IF i = 0 THEN INVALID_PAGE_ID
    ELSE IF st.frames[st.lru[i]].pin = 0 THEN st.lru[i]
         ELSE lru_victim(st, i - 1)

\* get_victim: a buffer page from the free list, else the least recently
\* used page with no pin, written back if dirty (the result of the write is
\* not looked at); bad: the pages whose write fails in this call
get_victim(st, c, bad) ==
    IF st.free > 0
    THEN [ok |-> TRUE, victim |-> INVALID_PAGE_ID, wrote |-> FALSE,
          st |-> [st EXCEPT !.free = @ - 1]]
    ELSE LET v == lru_victim(st, Len(st.lru))
         IN  IF v = INVALID_PAGE_ID
             THEN [ok |-> FALSE, victim |-> v, wrote |-> FALSE, st |-> st]
             ELSE [ok |-> TRUE, victim |-> v, wrote |-> st.frames[v].dirty,
                   st |-> [st EXCEPT
                      !.lru = lru_remove(@, v),
                      !.hash = hash_remove(@, v),
                      !.used = @ - 1,
                      !.disk = IF st.frames[v].dirty /\ v \notin bad
                               THEN file_write_page(@, v,
                                       encrypt_page(c, v, st.frames[v].data))
                               ELSE @,
                      !.frames = Drop(@, v)]]

\* buffer_pool_flush, the chain of one bucket: the result of each write
\* replaces rc
RECURSIVE flush_chain(_, _, _, _, _)
flush_chain(chain, i, fs, c, bad) ==
    IF i > Len(chain) THEN fs
    ELSE LET p == chain[i]
         IN  IF ~fs.frames[p].dirty THEN flush_chain(chain, i + 1, fs, c, bad)
             ELSE IF p \in bad
                  THEN flush_chain(chain, i + 1,
                          [fs EXCEPT !.rc = "IOERR",
                                     !.failed = @ \cup {p}], c, bad)
                  ELSE flush_chain(chain, i + 1,
                          [fs EXCEPT !.rc = "OK",
                                     !.frames = [@ EXCEPT ![p].dirty = FALSE],
                                     !.disk = file_write_page(@, p,
                                         encrypt_page(c, p, fs.frames[p].data))],
                          c, bad)

\* buffer_pool_flush, the loop over the buckets, left when rc is an error
RECURSIVE flush_buckets(_, _, _, _, _)
flush_buckets(table, b, fs, c, bad) ==
    IF b >= HashSize \/ fs.rc # "OK" THEN fs
    ELSE flush_buckets(table, b + 1, flush_chain(ChainOf(table, b), 1, fs, c, bad), c, bad)

\* ---- the write-ahead log (src/storage/wal.cpp) ------------------------------
MaxAppends == 4   \* records one run appends to the log
MaxWalTxn  == 2   \* transactions one run begins

WAL_HEADER_SIZE        == 64      \* bytes of the file header
WAL_BUFFER_SIZE        == 65536   \* 64 * 1024
WAL_RECORD_HEADER_SIZE == 40      \* sizeof(wal_record_header_t)
WAL_CHECKSUM_SIZE      == 4       \* sizeof(uint32_t) after each record

WalPages == {1}               \* the page written through the log
WalVals  == {1, 2}            \* after images; 0: the page was never written

PageAt(pages, p) == IF p \in DOMAIN pages THEN pages[p] ELSE 0

\* a log record as wal_append_record lays it out; crc_ok: the four bytes
\* after it are wal_record_checksum of its header and images
WalRecord(lsn, txn, type, page, after) ==
    [lsn |-> lsn, txn_id |-> txn, type |-> type, page_id |-> page,
     after |-> after, crc_ok |-> TRUE]

\* record_size of wal_append_record and of wal_recover; data_len is one page
RecordSize(r) ==
    WAL_RECORD_HEADER_SIZE + WAL_CHECKSUM_SIZE
        + (IF r.type = "PAGE" THEN 2 * PAGE_SIZE ELSE 0)

RECURSIVE RecordBytes(_)
RecordBytes(recs) ==
    IF recs = <<>> THEN 0
    ELSE RecordSize(Head(recs)) + RecordBytes(Tail(recs))

\* file_size of the log; cut: bytes missing from the end of its last record
WalFileSize(f) ==
    IF f.created THEN WAL_HEADER_SIZE + RecordBytes(f.recs) - f.cut ELSE 0

\* offset of record i of the file
RecordPos(recs, i) == WAL_HEADER_SIZE + RecordBytes(SubSeq(recs, 1, i - 1))

NoWal == [open |-> FALSE, current_lsn |-> 0, checkpoint_lsn |-> 0,
          buffer |-> <<>>]

\* the buffer goes to the end of the file and buffer_pos returns to 0
wal_flush_buffer(s) ==
    [wal  |-> [s.wal EXCEPT !.buffer = <<>>],
     file |-> [s.file EXCEPT !.recs = @ \o s.wal.buffer]]

wal_write_header(s) ==
    [s EXCEPT !.file.created = TRUE,
              !.file.lsn = s.wal.current_lsn,
              !.file.checkpoint_lsn = s.wal.checkpoint_lsn]

wal_read_header(s) ==
    [s EXCEPT !.wal.current_lsn = s.file.lsn,
              !.wal.checkpoint_lsn = s.file.checkpoint_lsn]

wal_append_record(s, r) ==
    LET fl == IF RecordBytes(s.wal.buffer) + RecordSize(r) > WAL_BUFFER_SIZE
              THEN wal_flush_buffer(s) ELSE s
    IN  [fl EXCEPT !.wal.buffer = Append(@, r)]

\* wal_init that numbers the records of every session from 1
wal_init_restart(f) ==
    LET s == [wal |-> [NoWal EXCEPT !.open = TRUE], file |-> f]
    IN  wal_write_header([s EXCEPT !.wal.current_lsn = 1])

\* wal_init on the file f: a file of size 0 gets LSN 1 and a header, another
\* one has its header read
wal_init(f) ==
    LET s == [wal |-> [NoWal EXCEPT !.open = TRUE], file |-> f]
    IN  IF WalFileSize(f) = 0
        THEN wal_write_header([s EXCEPT !.wal.current_lsn = 1])
        ELSE wal_read_header(s)

\* the records the loops of wal_recover take, by index: a loop ends at the
\* end of the file, at a header it cannot read whole and at an LSN that is 0
\* or above current_lsn
RECURSIVE wal_scan(_, _, _, _)
wal_scan(recs, i, size, cur) ==
    IF i > Len(recs) \/ RecordPos(recs, i) >= size THEN {}
    ELSE IF RecordPos(recs, i) + WAL_RECORD_HEADER_SIZE > size THEN {}
    ELSE IF recs[i].lsn = 0 \/ recs[i].lsn > cur THEN {}
    ELSE {i} \cup wal_scan(recs, i + 1, size, cur)

\* first pass: the transactions with a COMMIT record
wal_committed(recs, taken) ==
    {recs[i].txn_id : i \in {j \in taken : recs[j].type = "COMMIT"}}

\* second pass: the PAGE records whose after image reaches the file
wal_applied(recs, taken, size) ==
    {i \in taken :
        /\ recs[i].type = "PAGE"
        /\ recs[i].txn_id \in wal_committed(recs, taken)
        /\ RecordPos(recs, i) + WAL_RECORD_HEADER_SIZE + 2 * PAGE_SIZE <= size
        /\ recs[i].page_id # INVALID_PAGE_ID}

RECURSIVE wal_apply(_, _, _, _)
wal_apply(recs, i, applied, pages) ==
    IF i > Len(recs) THEN pages
    ELSE wal_apply(recs, i + 1, applied,
                   IF i \in applied
                   THEN Put(pages, recs[i].page_id, recs[i].after)
                   ELSE pages)

\* a record of the file that is not whole or whose checksum does not match
WalInvalid(f, i) ==
    \/ ~f.recs[i].crc_ok
    \/ RecordPos(f.recs, i) + RecordSize(f.recs[i]) > WalFileSize(f)

RECURSIVE Increasing(_)
Increasing(s) ==
    Len(s) < 2 \/ (s[1] < s[2] /\ Increasing(Tail(s)))

\* ---- prepared statements (src/core/executor.cpp, src/sql/parser.cpp) --------
\* Table t has two INTEGER columns a and b (indexes 0 and 1 of the stored
\* row, 1 and 2 here); 0 stands for NULL.
MaxStRows == 2   \* rows of table t
MaxParsed == 4   \* '?' tokens the process parses in one run
MaxResets == 1   \* speedsql_reset calls on one statement

StVals  == {1, 2}
StRows  == StVals \X StVals
Limits  == -1..MaxStRows        \* -1: no LIMIT clause (parse_select)
Offsets == {0, 1}

Stmt(kind, row) ==
    [op |-> kind, cols |-> <<>>, from |-> FALSE, where |-> "none",
     order |-> "none", desc |-> FALSE, limit |-> -1, offset |-> 0, row |-> row]

Sel(cols, from, where, order, desc, limit, offset) ==
    [op |-> "SELECT", cols |-> cols, from |-> from, where |-> where,
     order |-> order, desc |-> desc, limit |-> limit, offset |-> offset,
     row |-> <<>>]

\* SELECT * FROM t / SELECT ?, ? / SELECT COUNT(*) FROM t /
\* SELECT a FROM t [ORDER BY a] LIMIT n OFFSET m /
\* SELECT b, a FROM t ORDER BY a [DESC] / SELECT b FROM t ORDER BY a /
\* SELECT a FROM t ORDER BY b / SELECT a FROM t WHERE w [ORDER BY a] /
\* SELECT a FROM t WHERE a = 1 OFFSET 1, w being a = 1 or 1 = 1
Selects ==
    {Sel(<<"*">>, TRUE, "none", "none", FALSE, -1, 0),
     Sel(<<"?", "?">>, FALSE, "none", "none", FALSE, -1, 0),
     Sel(<<"COUNT(*)">>, TRUE, "none", "none", FALSE, -1, 0),
     Sel(<<"b">>, TRUE, "none", "a", FALSE, -1, 0),
     Sel(<<"a">>, TRUE, "none", "b", FALSE, -1, 0),
     Sel(<<"a">>, TRUE, "a=1", "none", FALSE, -1, 1)}
    \cup {Sel(<<"a">>, TRUE, w, o, FALSE, -1, 0) :
              w \in {"a=1", "1=1"}, o \in {"none", "a"}}
    \cup {Sel(<<"a">>, TRUE, "none", o, FALSE, n, m) :
              o \in {"none", "a"}, n \in Limits, m \in Offsets}
    \cup {Sel(<<"b", "a">>, TRUE, "none", "a", d, -1, 0) : d \in BOOLEAN}

\* statements run with speedsql_exec: CREATE TABLE t (a INTEGER, b INTEGER),
\* INSERT INTO t VALUES (a, b), BEGIN, COMMIT, ROLLBACK
Execs ==
    {Stmt("CREATE_TABLE", <<>>), Stmt("BEGIN", <<>>), Stmt("COMMIT", <<>>),
     Stmt("ROLLBACK", <<>>)}
    \cup {Stmt("INSERT", r) : r \in StRows}

TxnSqls == {Stmt("BEGIN", <<>>), Stmt("COMMIT", <<>>), Stmt("ROLLBACK", <<>>)}

NoStmt == [live |-> FALSE]

\* a run of a statement that has not stepped yet
NoRun == [out |-> <<>>, srcs |-> <<>>, k |-> 0]

\* index of column c in table t (table->columns), 1-based
ColIdx(c) == IF c = "a" THEN 1 ELSE 2

has_aggregate(cols) == \E i \in DOMAIN cols : cols[i] = "COUNT(*)"

\* count_params_in_stmt, for the statements above
count_params_in_stmt(q) == Cardinality({i \in DOMAIN q.cols : q.cols[i] = "?"})

\* parse_primary: each '?' takes the static param_count and increments it
ParamIndexes(q, static_count) ==
    [k \in 1..count_params_in_stmt(q) |-> static_count + k - 1]

\* eval_expr of the k-th '?': RANGE leaves the result NULL
eval_param(s, k) ==
    LET idx == s.pidx[k]
    IN  IF idx < 1 \/ idx > Len(s.params) THEN 0 ELSE s.params[idx]

\* the WHERE clause on a stored row: 1 = 1 passes every row; a = 1 passes
\* none, because the column_ref.index of a column in WHERE stays -1 and
\* eval_expr returns RANGE, which leaves the filter result NULL
PassFilter(where, row) == where \in {"none", "1=1"}

\* projection of a stored row; '*' has no expression and stays NULL
Projected(cols, row) ==
    [i \in DOMAIN cols |->
        IF cols[i] = "a" THEN row[1]
        ELSE IF cols[i] = "b" THEN row[2]
        ELSE 0]

\* execute_select_init: column arrays, and plan and cursor when the
\* statement has a table
execute_select_init(s, c) ==
    IF s.sql.from /\ ~c.has_table
    THEN [rc |-> "ERROR", s |-> [s EXCEPT !.inited = TRUE, !.dangling = FALSE]]
    ELSE [rc |-> "OK",
          s  |-> [s EXCEPT !.inited = TRUE, !.dangling = FALSE,
                           !.executed = TRUE,
                           !.plan = IF s.sql.from THEN "scan" ELSE "none",
                           !.cursor = 1, !.buffer = <<>>, !.current = 0]]

\* rows the buffering loop keeps, in cursor order, with the stored row each
\* projected row came from
RECURSIVE BufferRows(_, _, _)
BufferRows(q, rows, i) ==
    IF i > Len(rows) THEN <<>>
    ELSE (IF PassFilter(q.where, rows[i])
          THEN <<[vals |-> Projected(q.cols, rows[i]), src |-> rows[i]]>>
          ELSE <<>>) \o BufferRows(q, rows, i + 1)

\* compare_rows reads position col_idx of the buffered (projected) row
SortSlot(q) == ColIdx(q.order)

SortKey(q, x) == IF q.desc THEN 0 - x.vals[SortSlot(q)] ELSE x.vals[SortSlot(q)]

Perms(n) == {f \in [1..n -> 1..n] : \A i, j \in 1..n : f[i] = f[j] => i = j}

\* what qsort can leave: the order compare_rows dictates, rows it calls equal
\* kept in or out of their order by the C library of the process (keeps), or
\* any order when compare_rows reads beyond the buffered row
SortOutcomes(q, buf, keeps) ==
    {[i \in 1..Len(buf) |-> buf[f[i]]] : f \in
        {g \in Perms(Len(buf)) :
            \/ SortSlot(q) > Len(q.cols)
            \/ \A i, j \in 1..Len(buf) :
                   i < j =>
                       \/ SortKey(q, buf[g[i]]) < SortKey(q, buf[g[j]])
                       \/ /\ SortKey(q, buf[g[i]]) = SortKey(q, buf[g[j]])
                          /\ IF keeps THEN g[i] < g[j] ELSE g[i] > g[j]}}

\* the OFFSET loop of the scan: [cursor, count] after it
RECURSIVE SkipOffset(_, _, _, _)
SkipOffset(q, rows, cursor, count) ==
    IF q.offset > 0 /\ count < q.offset /\ cursor <= Len(rows)
    THEN SkipOffset(q, rows, cursor + 1,
                    IF PassFilter(q.where, rows[cursor]) THEN count + 1 ELSE count)
    ELSE [cursor |-> cursor, count |-> count]

\* the next row at or after the cursor that passes the filter (0: none)
NextPassing(q, rows, cursor) ==
    LET hits == {i \in cursor..Len(rows) : PassFilter(q.where, rows[i])}
    IN  IF hits = {} THEN 0 ELSE CHOOSE i \in hits : \A j \in hits : i <= j

Out(s, code, row, src, ub) ==
    [s |-> s, rc |-> code, row |-> row, src |-> src, ub |-> ub]

\* execute_select_step without a plan: SELECT of expressions
select_no_table(s) ==
    IF ~s.has_row
    THEN {Out([s EXCEPT !.has_row = TRUE, !.step_count = @ + 1], "ROW",
              [k \in DOMAIN s.sql.cols |-> eval_param(s, k)], <<>>, FALSE)}
    ELSE {Out(s, "DONE", <<>>, <<>>, FALSE)}

\* the aggregate branch: COUNT(*) over the rows from the cursor on
select_aggregate(s, rows) ==
    LET q     == s.sql
        seen  == {i \in s.cursor..Len(rows) : TRUE}
        count == Cardinality({i \in seen : PassFilter(q.where, rows[i])})
        dang  == s.dangling \/ (q.where # "none" /\ seen # {})
    IN  {Out([s EXCEPT !.cursor = Len(rows) + 1, !.dangling = dang,
                       !.has_row = TRUE, !.step_count = @ + 1],
             "ROW", <<count>>, <<>>, dang)}

\* the branch that returns the buffered rows: OFFSET, LIMIT, the next row
select_sorted(s) ==
    LET q    == s.sql
        size == Len(s.buffer)
        idx  == IF s.current < q.offset /\ s.current < size
                THEN Min(q.offset, size) ELSE s.current
    IN  IF idx >= size
        THEN {Out(s, "DONE", <<>>, <<>>, FALSE)}
        ELSE IF q.limit > 0 /\ idx - q.offset >= q.limit
        THEN {Out(s, "DONE", <<>>, <<>>, FALSE)}
        ELSE {Out([s EXCEPT !.current = idx + 1, !.step_count = @ + 1],
                  "ROW", s.buffer[idx + 1].vals, s.buffer[idx + 1].src,
                  s.dangling)}

\* the buffering branch (ORDER BY), followed by the first return
select_buffer(s, rows, keeps) ==
    LET q    == s.sql
        buf  == BufferRows(q, rows, s.cursor)
        dang == s.dangling \/ (q.where # "none" /\ s.cursor <= Len(rows))
    IN  UNION {select_sorted([s EXCEPT !.buffer = sorted, !.plan = "sort",
                                       !.current = 0, !.has_row = TRUE,
                                       !.cursor = Len(rows) + 1,
                                       !.dangling = dang]) :
                   sorted \in SortOutcomes(q, buf, keeps)}

\* the scan without buffering
select_scan(s, rows) ==
    LET q    == s.sql
        sk   == SkipOffset(q, rows, s.cursor, s.step_count)
        dang == s.dangling \/ (q.where # "none" /\ sk.cursor > s.cursor)
        nxt  == NextPassing(q, rows, sk.cursor)
    IN  IF nxt = 0
        THEN {Out([s EXCEPT !.cursor = Len(rows) + 1, !.step_count = sk.count,
                            !.dangling = dang], "DONE", <<>>, <<>>, FALSE)}
        ELSE {Out([s EXCEPT !.cursor = nxt + 1, !.step_count = sk.count + 1,
                            !.dangling = dang, !.has_row = TRUE],
                  IF q.limit > 0 /\ (sk.count + 1) - q.offset > q.limit
                  THEN "DONE" ELSE "ROW",
                  Projected(q.cols, rows[nxt]), rows[nxt], dang)}

execute_select_step(s, rows, keeps) ==
    IF s.plan = "none" THEN select_no_table(s)
    ELSE IF has_aggregate(s.sql.cols) /\ ~s.has_row THEN select_aggregate(s, rows)
    ELSE IF s.sql.order # "none" /\ ~s.has_row THEN select_buffer(s, rows, keeps)
    ELSE IF s.plan = "sort" THEN select_sorted(s)
    ELSE select_scan(s, rows)

\* ---- the database file (src/core/database.cpp) -----------------------------
MaxFdRowid == 2   \* last_rowid is not advanced past this value
MaxFdRows  == 2   \* rows the leaf of t holds at most

DB_VERSION     == 1    \* static const uint32_t DB_VERSION
MAGIC_TAIL     == 49   \* the character '1' that ends DB_MAGIC, before its NUL
SCHEMA_PAGE    == 1    \* the page save_schema writes, header.schema_root

\* DB_MAGIC, "SpeedSQL format 1": the sixteen bytes that fit magic[], and
\* the two bytes behind them
DB_MAGIC_HEAD == "SpeedSQL format "

Passwords  == {1, 2}
Salts      == {1, 2}
Versions   == {0, DB_VERSION, DB_VERSION + 1, MAGIC_TAIL}
HeaderParts == {"magic", "version", "checksum"}

NoHeader == [size |-> 0]
NoTable  == [root |-> INVALID_PAGE_ID]
NoKey    == <<>>

FdPage(kind, rows, root) == [kind |-> kind, rows |-> rows, root |-> root]

NoBuf == [res |-> FALSE, dirty |-> FALSE, data |-> FdPage("zero", <<>>, 0)]

FdCall(o, code) ==
    [op |-> o, rc |-> code, page |-> INVALID_PAGE_ID, read |-> "NONE",
     wkey |-> NoKey, rkey |-> NoKey, rows |-> <<>>, existing |-> FALSE]

\* crc32 over the header up to its checksum field
header_crc(h) == <<h.magic, h.version, h.page_count, h.schema_root>>

\* the header init_new_database and save_schema write: memcpy copies the
\* sizeof(DB_MAGIC) = 18 bytes of DB_MAGIC to magic[16], the last two of them
\* into the low bytes of version, and the assignment of version that follows
\* replaces them
WrittenHeader(count, schema) ==
    LET h == [size |-> 1, magic |-> DB_MAGIC_HEAD, version |-> DB_VERSION,
              page_count |-> count, schema_root |-> schema, checksum |-> <<>>]
    IN  [h EXCEPT !.checksum = header_crc(h)]

\* read_database_header: memcmp over sizeof(DB_MAGIC) bytes compares magic[]
\* and the two low bytes of version (little-endian) with DB_MAGIC
read_database_header(h) ==
    IF h.magic # DB_MAGIC_HEAD \/ h.version % 65536 # MAGIC_TAIL THEN "CORRUPT"
    ELSE IF h.version > DB_VERSION THEN "CORRUPT"
    ELSE IF h.checksum # header_crc(h) THEN "CORRUPT"
    ELSE "OK"

\* load_schema: page 1 is read from the file as it is; a page that does not
\* start with PAGE_TYPE_SCHEMA holds no table
load_schema(h, pages) ==
    IF h.schema_root = INVALID_PAGE_ID THEN NoTable
    ELSE IF Len(pages) < SCHEMA_PAGE THEN NoTable
    ELSE IF pages[SCHEMA_PAGE].key = NoKey /\ pages[SCHEMA_PAGE].data.kind = "schema"
         THEN [root |-> pages[SCHEMA_PAGE].data.root]
         ELSE NoTable

\* speedsql_derive_key: PBKDF2 of the password and the salt
speedsql_derive_key(pw, salt) == <<pw, salt>>

\* write_page_encrypted: the block of the file for one page
FdBlock(key, data) == [key |-> key, data |-> data]

\* read_page_encrypted of the root page of t: without a cipher context the
\* bytes of the file are returned as they are; with one, the provider
\* authenticates the block with the key of the context
read_root(f) ==
    LET b == f.pages[f.tbl.root]
    IN  IF f.buf.res THEN [read |-> "HIT", data |-> f.buf.data, wkey |-> NoKey]
        ELSE IF f.key = NoKey
        THEN [read |-> "OK", wkey |-> b.key,
              data |-> IF b.key = NoKey THEN b.data
                       ELSE FdPage("ciphertext", <<>>, 0)]
        ELSE IF b.key = f.key
        THEN [read |-> "OK", wkey |-> b.key, data |-> b.data]
        ELSE [read |-> "CORRUPT", wkey |-> b.key, data |-> FdPage("zero", <<>>, 0)]

\* buffer_pool_get of the root page: the buffer page after the call
got_root(f, r) ==
    IF r.read = "OK" THEN [res |-> TRUE, dirty |-> FALSE, data |-> r.data]
    ELSE f.buf

\* buffer_pool_invalidate_dirty on the cache of the connection
fd_invalidate_dirty(b) == IF b.res /\ b.dirty THEN NoBuf ELSE b

\* the rows a scan of t returns on the open connection
FdRows ==
    IF ~fd.conn \/ fd.tbl = NoTable THEN <<>>
    ELSE LET r == read_root(fd)
         IN  IF r.read # "CORRUPT" /\ r.data.kind = "leaf" THEN r.data.rows
             ELSE <<>>


Init ==
    /\ txn_state = "TXN_NONE"
    /\ current_txn = 0
    /\ header_txn_id = FIRST_TXN_ID
    /\ savepoints = <<>>
    /\ last_rowid = 0
    /\ total_changes = 0
    /\ tables = <<>>
    /\ pool = buffer_pool_init
    /\ file = <<>>
    /\ op = "open"
    /\ rc = "OK"
    /\ h_begin_rows = <<>>
    /\ h_sp = <<>>
    /\ h_wrote = FALSE
    /\ h_last = NoEffect
    /\ bt_pages = <<BtLeaf(<<>>, 0, 0)>>
    /\ bt_root = 1
    /\ bt_call = [op |-> "create", key |-> 0, rc |-> "OK", out |-> <<>>]
    /\ bt_ref = [k \in BtKeys |-> 0]
    /\ bp_frames = <<>>
    /\ bp_free = PoolFrames
    /\ bp_used = 0
    /\ bp_lru = <<>>
    /\ bp_hash = <<>>
    /\ bp_disk = <<>>
    /\ bp_cipher = "NONE"
    /\ bp_call = [op |-> "init", page |-> INVALID_PAGE_ID, rc |-> "OK",
                  victim |-> INVALID_PAGE_ID, failed |-> {}]
    /\ bp_last = <<>>
    /\ wal = NoWal
    /\ wal_file = [created |-> FALSE, lsn |-> 0, checkpoint_lsn |-> 0,
                   recs |-> <<>>, cut |-> 0]
    /\ wal_db = <<>>
    /\ wal_call = [op |-> "none", txn |-> 0, next_txn |-> FIRST_TXN_ID + 1,
                   dirty |-> <<>>, pending |-> <<>>, expect |-> <<>>,
                   flushed |-> FALSE, damaged |-> FALSE, lsns |-> <<>>,
                   had_records |-> FALSE, recovered |-> FALSE, used |-> {}]
    /\ st_conn = [open |-> FALSE, memory |-> FALSE, qsort_keeps |-> TRUE,
                  has_table |-> FALSE, rows |-> <<>>, txn |-> FALSE,
                  parsed |-> 0]
    /\ st_stmt = NoStmt
    /\ st_call = [op |-> "none", rc |-> "OK", row |-> <<>>, more |-> FALSE,
                  run |-> NoRun, first |-> <<>>, resets |-> 0, bound |-> <<>>]
    /\ lk = [writer |-> FALSE, readers |-> 0,
             leaf |-> [count |-> 0, slots |-> <<>>],
             w |-> [pc |-> "idle", key |-> 0],
             r |-> "idle",
             seen |-> [op |-> "none", shared |-> FALSE, count |-> 0,
                       slots |-> <<>>]]
    /\ fd = [conn |-> FALSE, hdr |-> NoHeader, pages |-> <<>>, tbl |-> NoTable,
             buf |-> NoBuf, key |-> NoKey, last_rowid |-> 0, txn |-> FALSE,
             sp |-> -1, call |-> FdCall("none", "OK"),
             closed |-> [tbl |-> NoTable, rows |-> <<>>, key |-> NoKey],
             damaged |-> FALSE]

\* ---- transaction API (database.cpp) --------------------------------------
\* speedsql_begin without the `txn_state != TXN_NONE` check of line 659: the
\* variant C5_BeginMisuse must tell apart from the code.
speedsql_begin_unguarded ==
    /\ op' = "begin"
    /\ UNCHANGED unit_vars
    /\ h_last' = NoEffect
    /\ header_txn_id < MaxTxnId
    /\ header_txn_id' = header_txn_id + 1
    /\ current_txn' = header_txn_id + 1
    /\ txn_state' = "TXN_READ"
    /\ rc' = "OK"
    /\ h_begin_rows' = ReadableRows
    /\ h_wrote' = FALSE
    /\ UNCHANGED <<savepoints, last_rowid, total_changes, disk_vars, h_sp>>

speedsql_begin ==
    /\ op' = "begin"
    /\ UNCHANGED unit_vars
    /\ h_last' = NoEffect
    /\ IF txn_state # "TXN_NONE"
       THEN /\ rc' = "MISUSE"
            /\ UNCHANGED <<conn_vars, disk_vars, hist_vars>>
       ELSE /\ header_txn_id < MaxTxnId
            /\ header_txn_id' = header_txn_id + 1
            /\ current_txn' = header_txn_id + 1
            /\ txn_state' = "TXN_READ"
            /\ rc' = "OK"
            /\ h_begin_rows' = ReadableRows
            /\ h_wrote' = FALSE
            /\ UNCHANGED <<savepoints, last_rowid, total_changes, disk_vars,
                           h_sp>>

speedsql_commit ==
    /\ op' = "commit"
    /\ UNCHANGED unit_vars
    /\ h_last' = NoEffect
    /\ IF txn_state = "TXN_NONE"
       THEN /\ rc' = "OK"
            /\ UNCHANGED <<conn_vars, disk_vars, hist_vars>>
       ELSE /\ IF txn_state = "TXN_WRITE"
               THEN \E o \in FlushOutcomes(pool) :
                      LET fl == buffer_pool_flush(pool, file, o[1], o[2])
                      IN  /\ pool' = fl.pool
                          /\ file' = fl.file
                          /\ rc' = fl.rc
               ELSE /\ rc' = "OK"
                    /\ UNCHANGED <<pool, file>>
            /\ txn_state' = "TXN_NONE"
            /\ current_txn' = 0
            /\ h_begin_rows' = <<>>
            /\ h_wrote' = FALSE
            /\ UNCHANGED <<header_txn_id, savepoints, last_rowid,
                           total_changes, tables, h_sp>>

speedsql_rollback ==
    /\ op' = "rollback"
    /\ UNCHANGED unit_vars
    /\ rc' = "OK"
    /\ h_last' = NoEffect
    /\ IF txn_state = "TXN_NONE"
       THEN UNCHANGED <<conn_vars, disk_vars, hist_vars>>
       ELSE /\ pool' = buffer_pool_invalidate_dirty(pool)
            /\ txn_state' = "TXN_NONE"
            /\ current_txn' = 0
            /\ savepoints' = <<>>
            /\ h_sp' = <<>>
            /\ h_begin_rows' = <<>>
            /\ h_wrote' = FALSE
            /\ UNCHANGED <<header_txn_id, last_rowid, total_changes, tables,
                           file>>

speedsql_savepoint(name) ==
    /\ op' = "savepoint"
    /\ UNCHANGED unit_vars
    /\ h_last' = NoEffect
    /\ IF txn_state = "TXN_NONE"
       THEN /\ rc' = "MISUSE"
            /\ UNCHANGED <<conn_vars, disk_vars, hist_vars>>
       ELSE IF Len(savepoints) >= MAX_SAVEPOINTS
       THEN /\ rc' = "FULL"
            /\ UNCHANGED <<conn_vars, disk_vars, hist_vars>>
       ELSE IF \E i \in 1..Len(savepoints) : savepoints[i].name = name
       THEN /\ rc' = "CONSTRAINT"
            /\ UNCHANGED <<conn_vars, disk_vars, hist_vars>>
       ELSE /\ savepoints' = Append(savepoints,
                                [name                |-> StoredName(name),
                                 wal_lsn             |-> 0,
                                 last_rowid_saved    |-> last_rowid,
                                 total_changes_saved |-> total_changes])
            /\ h_sp' = Append(h_sp, [rows          |-> ReadableRows,
                                     last_rowid    |-> last_rowid,
                                     total_changes |-> total_changes,
                                     txn           |-> current_txn])
            /\ rc' = "OK"
            /\ UNCHANGED <<txn_state, current_txn, header_txn_id, last_rowid,
                           total_changes, disk_vars, h_begin_rows, h_wrote>>

\* speedsql_release setting savepoint_count to found_idx + 1, which keeps the
\* named marker: the variant C10_Release must tell apart from the code.
speedsql_release_keeps_named(name) ==
    /\ op' = "release"
    /\ UNCHANGED unit_vars
    /\ LET found_idx == FindSavepoint(name)
       IN  IF found_idx = 0
           THEN /\ rc' = "NOTFOUND"
                /\ h_last' = NoEffect
                /\ UNCHANGED <<conn_vars, disk_vars, hist_vars>>
           ELSE /\ savepoints' = SubSeq(savepoints, 1, found_idx)
                /\ h_sp' = SubSeq(h_sp, 1, found_idx)
                /\ h_last' = [popped   |-> Len(savepoints) - found_idx,
                              restored |-> FALSE]
                /\ rc' = "OK"
                /\ UNCHANGED <<txn_state, current_txn, header_txn_id,
                               last_rowid, total_changes, disk_vars,
                               h_begin_rows, h_wrote>>

speedsql_release(name) ==
    /\ op' = "release"
    /\ UNCHANGED unit_vars
    /\ LET found_idx == FindSavepoint(name)
       IN  IF found_idx = 0
           THEN /\ rc' = "NOTFOUND"
                /\ h_last' = NoEffect
                /\ UNCHANGED <<conn_vars, disk_vars, hist_vars>>
           ELSE /\ savepoints' = SubSeq(savepoints, 1, found_idx - 1)
                /\ h_sp' = SubSeq(h_sp, 1, found_idx - 1)
                /\ h_last' = [popped   |-> Len(savepoints) - (found_idx - 1),
                              restored |-> FALSE]
                /\ rc' = "OK"
                /\ UNCHANGED <<txn_state, current_txn, header_txn_id,
                               last_rowid, total_changes, disk_vars,
                               h_begin_rows, h_wrote>>

\* speedsql_rollback_to without `db->total_changes = sp->total_changes_saved`:
\* the variant C9_RollbackToRestoresCounters must tell apart from the code.
speedsql_rollback_to_keeps_changes(name) ==
    /\ op' = "rollback_to"
    /\ UNCHANGED unit_vars
    /\ LET found_idx == FindSavepoint(name)
       IN  IF found_idx = 0
           THEN /\ rc' = "NOTFOUND"
                /\ h_last' = NoEffect
                /\ UNCHANGED <<conn_vars, disk_vars, hist_vars>>
           ELSE /\ pool' = buffer_pool_invalidate_dirty(pool)
                /\ last_rowid' = savepoints[found_idx].last_rowid_saved
                /\ savepoints' = SubSeq(savepoints, 1, found_idx)
                /\ h_sp' = SubSeq(h_sp, 1, found_idx)
                /\ h_last' = [popped   |-> Len(savepoints) - found_idx,
                              restored |->
                                 last_rowid # savepoints[found_idx].last_rowid_saved]
                /\ rc' = "OK"
                /\ UNCHANGED <<txn_state, current_txn, header_txn_id, tables,
                               total_changes, file, h_begin_rows, h_wrote>>

speedsql_rollback_to(name) ==
    /\ op' = "rollback_to"
    /\ UNCHANGED unit_vars
    /\ LET found_idx == FindSavepoint(name)
       IN  IF found_idx = 0
           THEN /\ rc' = "NOTFOUND"
                /\ h_last' = NoEffect
                /\ UNCHANGED <<conn_vars, disk_vars, hist_vars>>
           ELSE /\ pool' = buffer_pool_invalidate_dirty(pool)
                /\ last_rowid' = savepoints[found_idx].last_rowid_saved
                /\ total_changes' = savepoints[found_idx].total_changes_saved
                /\ savepoints' = SubSeq(savepoints, 1, found_idx)
                /\ h_sp' = SubSeq(h_sp, 1, found_idx)
                /\ h_last' = [popped   |-> Len(savepoints) - found_idx,
                              restored |->
                                 \/ last_rowid # savepoints[found_idx].last_rowid_saved
                                 \/ total_changes # savepoints[found_idx].total_changes_saved]
                /\ rc' = "OK"
                /\ UNCHANGED <<txn_state, current_txn, header_txn_id, tables,
                               file, h_begin_rows, h_wrote>>

\* ---- statements run by speedsql_step (executor.cpp) ----------------------
\* CREATE TABLE u (v INTEGER): create_table and btree_create
execute_create_table ==
    /\ op' = "step"
    /\ UNCHANGED unit_vars
    /\ h_last' = NoEffect
    /\ IF tables # <<>>
       THEN /\ rc' = "ERROR"
            /\ UNCHANGED <<conn_vars, disk_vars, hist_vars>>
       ELSE /\ Len(file) < MaxPages
            /\ LET np == buffer_pool_new_page(pool, file)
               IN  /\ file' = np.file
                   /\ pool' = buffer_pool_unpin(np.pool, np.id, LeafPage(<<>>), TRUE)
                   /\ tables' = <<np.id>>
            /\ rc' = "DONE"
            /\ h_wrote' = (txn_state # "TXN_NONE")
            /\ UNCHANGED <<conn_vars, h_begin_rows, h_sp>>

\* INSERT INTO u VALUES (v): the row id is taken first; btree_insert puts the
\* cell at slot 0, because the INT key compares below every stored BLOB key.
execute_insert(v) ==
    /\ op' = "step"
    /\ UNCHANGED unit_vars
    /\ h_last' = NoEffect
    /\ IF tables = <<>>
       THEN /\ rc' = "ERROR"
            /\ UNCHANGED <<conn_vars, disk_vars, hist_vars>>
       ELSE /\ last_rowid < MaxRowid
            /\ last_rowid' = last_rowid + 1
            /\ LET fl == find_leaf(pool, file, tables[1])
               IN  IF fl.leaf = 0
                   THEN /\ rc' = "IOERR"
                        /\ pool' = fl.pool
                        /\ UNCHANGED <<total_changes, h_wrote>>
                   ELSE /\ Len(fl.pool[fl.leaf].data.rows) < MaxRows
                        /\ total_changes < MaxChanges
                        /\ pool' = buffer_pool_unpin(fl.pool, fl.leaf,
                               LeafPage(<<v>> \o fl.pool[fl.leaf].data.rows), TRUE)
                        /\ total_changes' = total_changes + 1
                        /\ rc' = "DONE"
                        /\ h_wrote' = (txn_state # "TXN_NONE")
            /\ UNCHANGED <<txn_state, current_txn, header_txn_id, savepoints,
                           tables, file, h_begin_rows, h_sp>>

\* DELETE FROM u WHERE v IN w: the cursor scan collects the keys of the rows
\* that pass the filter, then btree_delete runs once per collected key.
execute_delete(w) ==
    /\ op' = "step"
    /\ UNCHANGED unit_vars
    /\ h_last' = NoEffect
    /\ IF tables = <<>>
       THEN /\ rc' = "ERROR"
            /\ UNCHANGED <<conn_vars, disk_vars, hist_vars>>
       ELSE /\ LET fl   == find_leaf(pool, file, tables[1])
                   rows == fl.pool[fl.leaf].data.rows
                   n    == Len(SelectSeq2(rows, w))
               IN  IF fl.leaf = 0 \/ n = 0
                   THEN /\ pool' = fl.pool
                        /\ UNCHANGED <<total_changes, h_wrote>>
                   ELSE /\ total_changes + n <= MaxChanges
                        /\ pool' = buffer_pool_unpin(fl.pool, fl.leaf,
                               LeafPage(btree_delete_n(rows, n)), TRUE)
                        /\ total_changes' = total_changes + n
                        /\ h_wrote' = (txn_state # "TXN_NONE")
            /\ rc' = "DONE"
            /\ UNCHANGED <<txn_state, current_txn, header_txn_id, savepoints,
                           last_rowid, tables, file,
                           h_begin_rows, h_sp>>

\* UPDATE u SET v = y WHERE v IN w
execute_update(w, y) ==
    /\ op' = "step"
    /\ UNCHANGED unit_vars
    /\ h_last' = NoEffect
    /\ IF tables = <<>>
       THEN /\ rc' = "ERROR"
            /\ UNCHANGED <<conn_vars, disk_vars, hist_vars>>
       ELSE /\ LET fl   == find_leaf(pool, file, tables[1])
                   rows == fl.pool[fl.leaf].data.rows
                   n    == Len(SelectSeq2(rows, w))
               IN  IF fl.leaf = 0 \/ n = 0
                   THEN /\ pool' = fl.pool
                        /\ UNCHANGED <<total_changes, h_wrote>>
                   ELSE /\ total_changes + n <= MaxChanges
                        /\ pool' = buffer_pool_unpin(fl.pool, fl.leaf,
                               LeafPage(apply_updates(rows, [i \in 1..n |-> y])),
                               TRUE)
                        /\ total_changes' = total_changes + n
                        /\ h_wrote' = (txn_state # "TXN_NONE")
            /\ rc' = "DONE"
            /\ UNCHANGED <<txn_state, current_txn, header_txn_id, savepoints,
                           last_rowid, tables, file,
                           h_begin_rows, h_sp>>

\* SELECT * FROM u stepped to the end: the scan brings the root into the pool
execute_select ==
    /\ op' = "step"
    /\ UNCHANGED unit_vars
    /\ h_last' = NoEffect
    /\ IF tables = <<>>
       THEN /\ rc' = "ERROR"
            /\ UNCHANGED pool
       ELSE /\ rc' = "DONE"
            /\ pool' = find_leaf(pool, file, tables[1]).pool
    /\ UNCHANGED <<conn_vars, tables, file, hist_vars>>

\* ---- specification --------------------------------------------------------
Next ==
    \/ speedsql_begin
    \/ speedsql_commit
    \/ speedsql_rollback
    \/ \E name \in Names : speedsql_savepoint(name)
    \/ \E name \in Names : speedsql_release(name)
    \/ \E name \in Names : speedsql_rollback_to(name)
    \/ execute_create_table
    \/ \E v \in Vals : execute_insert(v)
    \/ \E w \in Filters : execute_delete(w)
    \/ \E w \in Filters : \E y \in Vals : execute_update(w, y)
    \/ execute_select

Spec == Init /\ [][Next]_vars

\* ---- properties -----------------------------------------------------------
InTxn == txn_state # "TXN_NONE"

Top(seq) == seq[Len(seq)]

\* C1: ROLLBACK of an open transaction leaves readable exactly the rows that
\* were readable on the connection when its BEGIN ran, rows written earlier
\* outside any transaction included.
C1_RollbackAtomic ==
    [][(op' = "rollback" /\ InTxn) => ReadableRows' = h_begin_rows]_vars

\* C2: after ROLLBACK TO s, inside the transaction that created s, the rows
\* readable are those that were readable when s was created: the writes made
\* before s in that transaction stay.
C2_RollbackToKeepsEarlierWrites ==
    (op = "rollback_to" /\ rc = "OK" /\ InTxn /\ h_sp # <<>>
        /\ Top(h_sp).txn = current_txn)
    => ReadableRows = Top(h_sp).rows

\* C3: when commit() returns OK for a transaction in which a write statement
\* ran, no page of the pool is dirty afterwards and every resident page is in
\* the file as the pool holds it.
C3_CommitFlushes ==
    [][(op' = "commit" /\ rc' = "OK" /\ InTxn /\ h_wrote) =>
          /\ DirtyPages(pool') = {}
          /\ \A p \in DOMAIN pool' :
                pool'[p].state # "BUF_INVALID" =>
                   (p \in 1..Len(file') /\ file'[p] = pool'[p].data)]_vars

\* C4: the state is read right after BEGIN, write once a write statement has
\* run inside the transaction, and none after commit or rollback.
C4_TxnStateMachine ==
    /\ (op = "begin" /\ rc = "OK") => (txn_state = "TXN_READ" /\ ~h_wrote)
    /\ (InTxn /\ h_wrote) => txn_state = "TXN_WRITE"
    /\ (op \in {"commit", "rollback"} /\ rc = "OK") => txn_state = "TXN_NONE"

\* C5: begin() returns OK only when called in state none; called in an open
\* transaction it returns Misuse and leaves the transaction state, the current
\* transaction id and the savepoint stack as they were.
C5_BeginMisuse ==
    [][op' = "begin" =>
         IF InTxn
         THEN /\ rc' = "MISUSE"
              /\ UNCHANGED <<txn_state, current_txn, savepoints>>
         ELSE rc' = "OK" /\ txn_state' # "TXN_NONE"]_vars

\* C5 witness: begin() has just been refused inside a transaction that holds
\* a savepoint.
C5_Witness ==
    /\ op = "begin" /\ rc = "MISUSE"
    /\ txn_state = "TXN_READ" /\ current_txn # 0 /\ savepoints # <<>>

\* C6: right after a successful begin() the savepoint stack is empty.
C6_BeginClearsSavepoints ==
    (op = "begin" /\ rc = "OK") => savepoints = <<>>

\* C7: in state none, savepoint, release and rollback_to do not return OK
\* (none of the three changes the transaction state, so the state after the
\* call is the state it was made in).
C7_SavepointsNeedTxn ==
    (txn_state = "TXN_NONE" /\ op \in {"savepoint", "release", "rollback_to"})
    => rc # "OK"

\* commit() returns OK in every reachable state: its two failing calls,
\* wal_commit and buffer_pool_flush, are made only in state TXN_WRITE, which
\* no statement of the program assigns.
CommitAlwaysOK ==
    /\ txn_state # "TXN_WRITE"
    /\ op = "commit" => rc = "OK"

\* C9: when rollback_to(name) returns OK, last_rowid and total_changes are the
\* values the connection had when the savepoint of that name was created.
C9_RollbackToRestoresCounters ==
    [][\A name \in Names :
         (speedsql_rollback_to(name) /\ rc' = "OK") =>
            \E i \in DOMAIN savepoints :
               /\ savepoints[i].name = name
               /\ last_rowid' = h_sp[i].last_rowid
               /\ total_changes' = h_sp[i].total_changes]_vars

\* C9 witness: a rollback_to has just returned OK and moved a counter back,
\* dropping a nested savepoint on the way.
C9_Witness ==
    /\ op = "rollback_to" /\ rc = "OK"
    /\ h_last.restored /\ h_last.popped > 0
    /\ total_changes = Top(h_sp).total_changes
    /\ last_rowid = Top(h_sp).last_rowid

\* C10: release(name) with name on the stack returns OK and leaves exactly the
\* markers pushed before the named one; with name not on the stack it returns
\* NotFound and leaves the stack as it was.
C10_Release ==
    [][\A name \in Names :
         speedsql_release(name) =>
            IF \E i \in DOMAIN savepoints : savepoints[i].name = name
            THEN /\ rc' = "OK"
                 /\ \E i \in DOMAIN savepoints :
                       /\ savepoints[i].name = name
                       /\ savepoints' = SubSeq(savepoints, 1, i - 1)
            ELSE /\ rc' = "NOTFOUND"
                 /\ savepoints' = savepoints]_vars

\* C10 witness: a release has just removed the named marker together with the
\* marker pushed after it.
C10_Witness ==
    /\ op = "release" /\ rc = "OK"
    /\ h_last.popped = 2

\* ---- savepoint names longer than the name buffer --------------------------
MaxDepth == 3   \* markers the caller of SpecLong keeps live at most

\* A name of sizeof(sp->name) = SP_NAME_MAX + 1 characters ending in c: two
\* such names differ only in the character strncpy does not copy.
LongName(c) == [i \in 1..(SP_NAME_MAX + 1) |-> IF i = SP_NAME_MAX + 1 THEN c ELSE 1]

LongNames == {LongName(1), LongName(2)}

NamesLong == {<<1>>} \cup LongNames

\* The transaction API alone, called with short and long names.
NextLong ==
    \/ speedsql_begin
    \/ speedsql_commit
    \/ speedsql_rollback
    \/ \E name \in NamesLong :
          Len(savepoints) < MaxDepth /\ speedsql_savepoint(name)
    \/ \E name \in NamesLong : speedsql_release(name)
    \/ \E name \in NamesLong : speedsql_rollback_to(name)

SpecLong == Init /\ [][NextLong]_vars

\* C11: the names stored on the live stack are pairwise distinct, and a
\* savepoint call whose name is the stored name of a live marker, made in a
\* transaction, has returned Constraint.
C11_NamesDistinct ==
    \A i, j \in DOMAIN savepoints :
        savepoints[i].name = savepoints[j].name => i = j

\* ---- a caller that nests savepoints up to the limit ------------------------
\* The caller names a savepoint after the depth it is pushed at, so live names
\* are distinct and the stack can grow to the limit.
DepthName(k) == <<k>>

\* speedsql_savepoint returning before the `savepoint_count >= 32` check can
\* fire: the variant C12_SavepointLimit must tell apart from the code.
savepoint_deep_unlimited ==
    \E name \in {DepthName(Len(savepoints) + 1), DepthName(1)} :
        /\ Len(savepoints) <= MAX_SAVEPOINTS
        /\ op' = "savepoint"
        /\ UNCHANGED unit_vars
        /\ h_last' = NoEffect
        /\ IF txn_state = "TXN_NONE"
           THEN /\ rc' = "MISUSE"
                /\ UNCHANGED <<conn_vars, disk_vars, hist_vars>>
           ELSE IF \E i \in 1..Len(savepoints) : savepoints[i].name = name
           THEN /\ rc' = "CONSTRAINT"
                /\ UNCHANGED <<conn_vars, disk_vars, hist_vars>>
           ELSE /\ savepoints' = Append(savepoints,
                                    [name                |-> StoredName(name),
                                     wal_lsn             |-> 0,
                                     last_rowid_saved    |-> last_rowid,
                                     total_changes_saved |-> total_changes])
                /\ h_sp' = Append(h_sp, [rows          |-> ReadableRows,
                                         last_rowid    |-> last_rowid,
                                         total_changes |-> total_changes,
                                         txn           |-> current_txn])
                /\ rc' = "OK"
                /\ UNCHANGED <<txn_state, current_txn, header_txn_id, last_rowid,
                               total_changes, disk_vars, h_begin_rows, h_wrote>>

\* speedsql_savepoint called with the next depth's name or the first one
savepoint_deep ==
    \E name \in {DepthName(Len(savepoints) + 1), DepthName(1)} :
        speedsql_savepoint(name)

\* speedsql_release of the top marker or of the first one
release_deep ==
    \E name \in {DepthName(Len(savepoints)), DepthName(1)} :
        speedsql_release(name)

\* speedsql_rollback_to the top marker or the first one
rollback_to_deep ==
    \E name \in {DepthName(Len(savepoints)), DepthName(1)} :
        speedsql_rollback_to(name)

NextDeep ==
    \/ speedsql_begin
    \/ speedsql_commit
    \/ speedsql_rollback
    \/ savepoint_deep
    \/ release_deep
    \/ rollback_to_deep

SpecDeep == Init /\ [][NextDeep]_vars

\* C12: the stack never holds more than 32 markers, and a savepoint call made
\* with 32 markers live returns Full and leaves the stack, last_rowid and
\* total_changes as they were.
C12_SavepointLimit ==
    [][/\ Len(savepoints') <= 32
       /\ (op' = "savepoint" /\ InTxn /\ Len(savepoints) = 32) =>
             /\ rc' = "FULL"
             /\ UNCHANGED <<savepoints, last_rowid, total_changes>>]_vars

\* C12 witness: a savepoint call has just been refused with Full, on a stack
\* of 32 markers with distinct names.
C12_Witness ==
    /\ op = "savepoint" /\ rc = "FULL"
    /\ Len(savepoints) = 32
    /\ C11_NamesDistinct

\* ---- SAVEPOINT / RELEASE / ROLLBACK TO as SQL statements -------------------
SavepointStmts == {"SQL_SAVEPOINT", "SQL_RELEASE", "SQL_ROLLBACK_TO"}

\* speedsql_step on a statement the parser gave one of the three savepoint
\* opcodes: the switch has no case for them, so the default branch sets
\* "Unsupported SQL operation" and returns SPEEDSQL_ERROR; speedsql_exec
\* returns that code.
step_savepoint_stmt(kind, name) ==
    /\ kind \in SavepointStmts
    /\ op' = "step"
    /\ UNCHANGED unit_vars
    /\ rc' = "ERROR"
    /\ h_last' = NoEffect
    /\ UNCHANGED <<conn_vars, disk_vars, hist_vars>>

NextStmt ==
    \/ speedsql_begin
    \/ speedsql_commit
    \/ speedsql_rollback
    \/ \E name \in Names : speedsql_savepoint(name)
    \/ \E name \in Names : speedsql_release(name)
    \/ \E name \in Names : speedsql_rollback_to(name)
    \/ \E kind \in SavepointStmts : \E name \in Names :
          step_savepoint_stmt(kind, name)

SpecStmt == Init /\ [][NextStmt]_vars

\* C13: inside a transaction, SAVEPOINT n, RELEASE n and ROLLBACK TO n run as
\* statements return success where the API call would return OK, and leave
\* the savepoint stack and the two counters as the API call would.
C13_SqlSavepointStatements ==
    [][\A name \in Names :
         LET found_idx == FindSavepoint(name)
         IN  /\ (step_savepoint_stmt("SQL_SAVEPOINT", name) /\ InTxn
                   /\ found_idx = 0 /\ Len(savepoints) < MAX_SAVEPOINTS) =>
                  /\ rc' \in {"OK", "DONE"}
                  /\ Len(savepoints') = Len(savepoints) + 1
                  /\ Top(savepoints').name = name
             /\ (step_savepoint_stmt("SQL_RELEASE", name) /\ InTxn
                   /\ found_idx # 0) =>
                  /\ rc' \in {"OK", "DONE"}
                  /\ savepoints' = SubSeq(savepoints, 1, found_idx - 1)
             /\ (step_savepoint_stmt("SQL_ROLLBACK_TO", name) /\ InTxn
                   /\ found_idx # 0) =>
                  /\ rc' \in {"OK", "DONE"}
                  /\ savepoints' = SubSeq(savepoints, 1, found_idx)
                  /\ last_rowid' = savepoints[found_idx].last_rowid_saved
                  /\ total_changes' = savepoints[found_idx].total_changes_saved]_vars

\* ---- B+ tree calls ---------------------------------------------------------
btree_insert(key, val) ==
    LET r == btree_insert_result(bt_pages, bt_root, key, val)
    IN  /\ Len(r.pages) <= MaxBtPages
        /\ r.rc # "FULL" \/ r.pages # bt_pages
        /\ bt_pages' = r.pages
        /\ bt_root' = r.root
        /\ bt_call' = [op |-> "insert", key |-> key, rc |-> r.rc, out |-> <<>>]
        /\ bt_ref' = IF r.rc = "OK" THEN [bt_ref EXCEPT ![key] = val] ELSE bt_ref
        /\ UNCHANGED tree_frame

btree_find(key) ==
    LET r == btree_find_result(bt_pages, bt_root, key)
    IN  /\ bt_call' = [op |-> "find", key |-> key, rc |-> r.rc, out |-> r.out]
        /\ UNCHANGED <<tree_frame, bt_pages, bt_root, bt_ref>>

btree_delete(key) ==
    LET r == btree_delete_result(bt_pages, bt_root, key)
    IN  /\ bt_pages' = r.pages
        /\ bt_call' = [op |-> "delete", key |-> key, rc |-> r.rc, out |-> <<>>]
        /\ bt_ref' = IF r.rc = "OK" THEN [bt_ref EXCEPT ![key] = 0] ELSE bt_ref
        /\ UNCHANGED <<tree_frame, bt_root>>

\* a cursor opened, moved to the first key and stepped to the end
btree_cursor_scan ==
    /\ bt_call' = [op |-> "scan", key |-> 0, rc |-> "DONE",
                   out |-> cursor_scan(bt_pages, bt_root)]
    /\ UNCHANGED <<tree_frame, bt_pages, bt_root, bt_ref>>

NextBT ==
    \/ \E key \in BtKeys : \E val \in BtVals : btree_insert(key, val)
    \/ \E key \in BtKeys : btree_find(key)
    \/ \E key \in BtKeys : btree_delete(key)
    \/ btree_cursor_scan

SpecBT == Init /\ [][NextBT]_vars

\* the same tree used with inserts only
NextBTIns ==
    \/ \E key \in BtKeys : \E val \in BtVals : btree_insert(key, val)
    \/ \E key \in BtKeys : btree_find(key)
    \/ btree_cursor_scan

SpecBTIns == Init /\ [][NextBTIns]_vars

\* C14: every key whose last insert returned OK and that no delete has
\* removed since is found, with the value of that insert.
C14_FindInsertedKeys ==
    \A k \in BtKeys :
        bt_ref[k] # 0 =>
            btree_find_result(bt_pages, bt_root, k)
                = [rc |-> "OK", out |-> <<bt_ref[k]>>]

\* C15: after inserts only, a full cursor scan returns the keys whose insert
\* returned OK, each once, in ascending order.
C15_ScanSorted ==
    bt_call.op = "scan" =>
        /\ \A i, j \in DOMAIN bt_call.out : i < j => bt_call.out[i] < bt_call.out[j]
        /\ {bt_call.out[i] : i \in DOMAIN bt_call.out}
              = {k \in BtKeys : bt_ref[k] # 0}

\* C16: insert of a key that is in the tree returns Constraint and leaves the
\* pages and the root of the tree as they were.
C16_DuplicateInsert ==
    [][\A k \in BtKeys : \A v \in BtVals :
         (btree_insert(k, v) /\ bt_ref[k] # 0) =>
            /\ bt_call'.rc = "CONSTRAINT"
            /\ bt_pages' = bt_pages
            /\ bt_root' = bt_root]_vars

\* C17: delete of a key that is not in the tree returns NotFound and changes
\* nothing; delete of a key that is in the tree returns OK, after which the
\* key is not found and every other key is found as before.
C17_Delete ==
    [][\A k \in BtKeys :
         btree_delete(k) =>
            IF bt_ref[k] = 0
            THEN /\ bt_call'.rc = "NOTFOUND"
                 /\ bt_pages' = bt_pages
            ELSE /\ bt_call'.rc = "OK"
                 /\ btree_find_result(bt_pages', bt_root', k).rc = "NOTFOUND"
                 /\ \A j \in BtKeys \ {k} :
                       btree_find_result(bt_pages', bt_root', j)
                          = btree_find_result(bt_pages, bt_root, j)]_vars

\* the leaves of the leaf chain from leaf p on, empty leaves included
RECURSIVE leaf_chain(_, _)
leaf_chain(pages, p) ==
    <<p>> \o (IF pages[p].next = 0 THEN <<>> ELSE leaf_chain(pages, pages[p].next))

\* the keys of the leaves of a chain, in chain order
RECURSIVE leaf_chain_keys(_, _)
leaf_chain_keys(pages, chain) ==
    IF chain = <<>> THEN <<>>
    ELSE [i \in 1..Len(pages[chain[1]].cells) |-> pages[chain[1]].cells[i].key]
            \o leaf_chain_keys(pages, SubSeq(chain, 2, Len(chain)))

\* C40: after inserts and deletes a full cursor scan returns exactly the
\* keys still present, also when deletes have emptied leaves that precede
\* leaves with keys in the leaf chain (the case where the leaves of the chain
\* are the leaves under the root and hold the present keys, each once).
C40_ScanAfterDeletes ==
    LET leaves == IF bt_pages[bt_root].kind = "leaf" THEN <<bt_root>>
                  ELSE bt_pages[bt_root].children
        keys == leaf_chain_keys(bt_pages, leaves)
        present == {k \in BtKeys : bt_ref[k] # 0}
    IN  (/\ bt_call.op = "scan"
         /\ \A i \in DOMAIN leaves : bt_pages[leaves[i]].kind = "leaf"
         /\ leaf_chain(bt_pages, leaves[1]) = leaves
         /\ Len(keys) = Cardinality(present)
         /\ {keys[i] : i \in DOMAIN keys} = present)
        => {bt_call.out[i] : i \in DOMAIN bt_call.out} = present

\* ---- buffer pool calls -----------------------------------------------------
Pool ==
    [frames |-> bp_frames, free |-> bp_free, used |-> bp_used, lru |-> bp_lru,
     hash |-> bp_hash, disk |-> bp_disk]

Install(st) ==
    /\ bp_frames' = st.frames
    /\ bp_free' = st.free
    /\ bp_used' = st.used
    /\ bp_lru' = st.lru
    /\ bp_hash' = st.hash
    /\ bp_disk' = st.disk

PoolCall(name, p, code, v) ==
    [op |-> name, page |-> p, rc |-> code, victim |-> v, failed |-> {}]

\* the process is running
PoolUp == bp_call.rc # "ABORT"

Abort(name, p) ==
    /\ bp_call' = PoolCall(name, p, "ABORT", INVALID_PAGE_ID)
    /\ UNCHANGED <<bp_frames, bp_free, bp_used, bp_lru, bp_hash, bp_disk>>

buffer_pool_set_encryption(c) ==
    /\ PoolUp
    /\ bp_cipher = "NONE"
    /\ bp_disk = <<>>
    /\ bp_cipher' = c
    /\ bp_call' = PoolCall("set_encryption", INVALID_PAGE_ID, "OK", INVALID_PAGE_ID)
    /\ UNCHANGED <<pool_frame, bp_frames, bp_free, bp_used, bp_lru, bp_hash, bp_disk,
                   bp_last>>

buffer_pool_new_page_file(bad) ==
    LET new_id == (Len(bp_disk) * (PAGE_SIZE + TagSize(bp_cipher))) \div PAGE_SIZE
        v == get_victim(Pool, bp_cipher, bad)
    IN  /\ PoolUp
        /\ new_id <= MaxPageId
        /\ IF ~v.ok
           THEN /\ bp_call' = PoolCall("new_page", new_id, "NOVICTIM", INVALID_PAGE_ID)
                /\ UNCHANGED <<bp_frames, bp_free, bp_used, bp_lru, bp_hash, bp_disk>>
           ELSE \E o \in WriteOutcomes(bp_cipher) :
                  IF o = "abort" THEN Abort("new_page", new_id)
                  ELSE IF new_id \in bad
                  THEN /\ Install([v.st EXCEPT !.free = @ + 1])
                       /\ bp_call' = PoolCall("new_page", new_id, "IOERR", v.victim)
                  ELSE /\ Install([v.st EXCEPT
                             !.frames = Put(@, new_id,
                                 [res |-> TRUE, pin |-> 1, dirty |-> TRUE, data |-> 0]),
                             !.disk = file_write_page(@, new_id,
                                         encrypt_page(bp_cipher, new_id, 0)),
                             !.hash = hash_insert(@, new_id),
                             !.lru = lru_insert_front(@, new_id),
                             !.used = @ + 1])
                       /\ bp_call' = PoolCall("new_page", new_id, "OK", v.victim)
        /\ UNCHANGED <<pool_frame, bp_cipher, bp_last>>

buffer_pool_get_page(p, bad) ==
    LET v == get_victim(Pool, bp_cipher, bad)
    IN  /\ PoolUp
        /\ IF FrameOf(bp_frames, p).res
           THEN /\ bp_frames[p].pin < MaxPin
                /\ bp_frames' = [bp_frames EXCEPT ![p].pin = @ + 1]
                /\ bp_lru' = IF bp_frames[p].pin = 0
                             THEN lru_insert_front(lru_remove(bp_lru, p), p)
                             ELSE bp_lru
                /\ bp_call' = PoolCall("get", p, "OK", INVALID_PAGE_ID)
                /\ UNCHANGED <<bp_free, bp_used, bp_hash, bp_disk>>
           ELSE IF ~v.ok
           THEN /\ bp_call' = PoolCall("get", p, "NOVICTIM", INVALID_PAGE_ID)
                /\ UNCHANGED <<bp_frames, bp_free, bp_used, bp_lru, bp_hash, bp_disk>>
           ELSE \E o \in (IF v.wrote THEN WriteOutcomes(bp_cipher) ELSE {"none"}) :
                  LET rd == read_page_encrypted(bp_cipher, v.st.disk, p)
                  IN  IF o = "abort" THEN Abort("get", p)
                      ELSE IF rd.rc # "OK"
                      THEN /\ Install([v.st EXCEPT !.free = @ + 1])
                           /\ bp_call' = PoolCall("get", p, rd.rc, v.victim)
                      ELSE /\ Install([v.st EXCEPT
                                 !.frames = Put(@, p,
                                     [res |-> TRUE, pin |-> 1, dirty |-> FALSE,
                                      data |-> rd.data]),
                                 !.hash = hash_insert(@, p),
                                 !.lru = lru_insert_front(@, p),
                                 !.used = @ + 1])
                           /\ bp_call' = PoolCall("get", p, "OK", v.victim)
        /\ UNCHANGED <<pool_frame, bp_cipher, bp_last>>

\* a holder stores val in the page it holds and unpins it dirty, or unpins
\* it as it got it
buffer_pool_unpin_page(p, dirty, val) ==
    /\ PoolUp
    /\ FrameOf(bp_frames, p).pin > 0
    /\ bp_frames' = [bp_frames EXCEPT
          ![p].pin = @ - 1,
          ![p].dirty = @ \/ dirty,
          ![p].data = IF dirty THEN val ELSE @]
    /\ bp_last' = IF dirty THEN Put(bp_last, p, val) ELSE bp_last
    /\ bp_call' = PoolCall("unpin", p, "OK", INVALID_PAGE_ID)
    /\ UNCHANGED <<pool_frame, bp_free, bp_used, bp_lru, bp_hash, bp_disk, bp_cipher>>

buffer_pool_flush_file(bad) ==
    LET dirty == {p \in PageIds : FrameOf(bp_frames, p).dirty}
        fs == flush_buckets(bp_hash, 0,
                 [rc |-> "OK", frames |-> bp_frames, disk |-> bp_disk,
                  failed |-> {}], bp_cipher, bad)
    IN  /\ PoolUp
        /\ \E o \in (IF dirty # {} THEN WriteOutcomes(bp_cipher) ELSE {"none"}) :
              IF o = "abort"
              THEN /\ Abort("flush", INVALID_PAGE_ID)
              ELSE /\ bp_frames' = fs.frames
                   /\ bp_disk' = fs.disk
                   /\ bp_call' = [op |-> "flush", page |-> INVALID_PAGE_ID,
                                  rc |-> fs.rc, victim |-> INVALID_PAGE_ID,
                                  failed |-> fs.failed]
                   /\ UNCHANGED <<bp_free, bp_used, bp_lru, bp_hash>>
        /\ UNCHANGED <<pool_frame, bp_cipher, bp_last>>

\* the callers of the pool: the first HeldCount pages stay with the holder
\* that made them, the others are fetched, changed and released
NoFault == {}

NextPool ==
    \/ buffer_pool_new_page_file(NoFault)
    \/ \E p \in PageIds \ LongHeld : buffer_pool_get_page(p, NoFault)
    \/ \E p \in PageIds \ LongHeld : \E val \in PoolVals :
          buffer_pool_unpin_page(p, TRUE, val)
    \/ \E p \in PageIds \ LongHeld : buffer_pool_unpin_page(p, FALSE, 0)
    \/ buffer_pool_flush_file(NoFault)

SpecPool == Init /\ [][NextPool]_vars

\* the same callers on a file some of whose writes fail
NextPoolFault ==
    \/ \E bad \in SUBSET BadPages : buffer_pool_new_page_file(bad)
    \/ \E p \in PageIds \ LongHeld : \E bad \in SUBSET BadPages :
          buffer_pool_get_page(p, bad)
    \/ \E p \in PageIds \ LongHeld : \E val \in PoolVals :
          buffer_pool_unpin_page(p, TRUE, val)
    \/ \E p \in PageIds \ LongHeld : buffer_pool_unpin_page(p, FALSE, 0)
    \/ \E bad \in SUBSET BadPages : buffer_pool_flush_file(bad)

SpecPoolFault == Init /\ [][NextPoolFault]_vars

\* buffer_pool_invalidate_dirty unlinking the dirty pages from the hash table
\* only
invalidate_dirty_keeps_lru ==
    LET gone == {p \in DOMAIN bp_frames : bp_frames[p].dirty}
    IN  /\ PoolUp
        /\ bp_frames' = [p \in DOMAIN bp_frames \ gone |-> bp_frames[p]]
        /\ bp_hash' = [b \in {c \in DOMAIN bp_hash :
                                 \E i \in DOMAIN bp_hash[c] : bp_hash[c][i] \notin gone}
                          |-> SelectSeq(bp_hash[b], LAMBDA q : q \notin gone)]
        /\ bp_free' = bp_free + Cardinality(gone)
        /\ bp_used' = bp_used - Cardinality(gone)
        /\ bp_call' = PoolCall("invalidate_dirty", INVALID_PAGE_ID, "OK",
                               INVALID_PAGE_ID)
        /\ UNCHANGED <<pool_frame, bp_lru, bp_disk, bp_cipher, bp_last>>

\* buffer_pool_invalidate_dirty: every dirty page of the hash table leaves
\* the hash table and the LRU list for the free list, its pin count set to 0
buffer_pool_invalidate_dirty_file ==
    LET gone == {p \in DOMAIN bp_frames : bp_frames[p].dirty}
    IN  /\ PoolUp
        /\ bp_frames' = [p \in DOMAIN bp_frames \ gone |-> bp_frames[p]]
        /\ bp_hash' = [b \in {c \in DOMAIN bp_hash :
                                 \E i \in DOMAIN bp_hash[c] : bp_hash[c][i] \notin gone}
                          |-> SelectSeq(bp_hash[b], LAMBDA q : q \notin gone)]
        /\ bp_lru' = SelectSeq(bp_lru, LAMBDA q : q \notin gone)
        /\ bp_free' = bp_free + Cardinality(gone)
        /\ bp_used' = bp_used - Cardinality(gone)
        /\ bp_call' = PoolCall("invalidate_dirty", INVALID_PAGE_ID, "OK",
                               INVALID_PAGE_ID)
        /\ UNCHANGED <<pool_frame, bp_disk, bp_cipher, bp_last>>

\* callers in a transaction that is rolled back, at the earliest when the
\* long holders have made their pages: two pages are fetched, marked dirty
\* and released by the others
UndoPages == {HeldCount, HeldCount + 1}

NextPoolUndo ==
    \/ \E bad \in SUBSET BadPages : buffer_pool_new_page_file(bad)
    \/ \E p \in UndoPages : buffer_pool_get_page(p, NoFault)
    \/ \E p \in UndoPages : buffer_pool_unpin_page(p, TRUE, 0)
    \/ \E p \in UndoPages : buffer_pool_unpin_page(p, FALSE, 0)
    \/ buffer_pool_flush_file(NoFault)
    \/ Len(bp_disk) > HeldCount /\ buffer_pool_invalidate_dirty_file

SpecPoolUndo == Init /\ [][NextPoolUndo]_vars

\* the same callers after a page cipher was installed or not, no write fails
NextPoolCipher ==
    \/ \E c \in Ciphers \ {"NONE"} : buffer_pool_set_encryption(c)
    \/ NextPool

SpecPoolCipher == Init /\ [][NextPoolCipher]_vars

\* C18: a page that carries a pin stays in the pool through every call, the
\* victim a call evicts carried no pin, and a call returns no page for want
\* of a buffer page only when the free list is empty and every page in the
\* pool is pinned.
C18_PinnedNeverEvicted ==
    [][/\ \A p \in DOMAIN bp_frames :
            bp_frames[p].pin > 0 => p \in DOMAIN bp_frames'
       /\ bp_call'.victim # INVALID_PAGE_ID =>
            /\ bp_call'.victim \in DOMAIN bp_frames
            /\ bp_frames[bp_call'.victim].pin = 0
       /\ bp_call'.rc = "NOVICTIM" =>
            /\ bp_call'.op \in {"get", "new_page"}
            /\ bp_free = 0
            /\ \A p \in DOMAIN bp_frames : bp_frames[p].pin > 0]_vars

\* a call found no victim although an unpinned page was evicted before
C18_Witness ==
    /\ bp_call.rc = "NOVICTIM"
    /\ bp_free = 0
    /\ \E p \in PageIds : p < Len(bp_disk) /\ p \notin DOMAIN bp_frames
    /\ \A p \in DOMAIN bp_frames : bp_frames[p].pin > 0

\* C19: after flush returns OK no page of the pool is dirty and the file
\* holds the bytes of every page that was dirty; a page whose write failed
\* makes flush return the error and stays dirty.
C19_Flush ==
    [][bp_call'.op = "flush" =>
         /\ bp_call'.rc = "OK" =>
              \A p \in PageIds :
                 /\ ~FrameOf(bp_frames', p).dirty
                 /\ FrameOf(bp_frames, p).dirty =>
                       /\ p < Len(bp_disk')
                       /\ read_page_encrypted(bp_cipher, bp_disk', p)
                             = [rc |-> "OK", data |-> bp_frames[p].data]
         /\ \A p \in bp_call'.failed :
              /\ bp_call'.rc # "OK"
              /\ FrameOf(bp_frames', p).dirty]_vars

\* C20: get of a page returns the bytes its last holder stored before
\* unpinning it dirty, unless no buffer page can be had.
C20_GetReturnsLastStored ==
    [][\A p \in DOMAIN bp_last :
         (/\ bp_call'.op = "get" /\ bp_call'.page = p
          /\ bp_call'.rc \notin {"NOVICTIM", "ABORT"}) =>
            /\ bp_call'.rc = "OK"
            /\ FrameOf(bp_frames', p).data = bp_last[p]]_vars

\* C34: right after get returns a page, on a hit as on a miss and whatever
\* pin count the page had, the page is at the head of the LRU list.
C34_GetMovesToHead ==
    [][(bp_call'.op = "get" /\ bp_call'.rc = "OK") =>
          /\ bp_lru' # <<>>
          /\ bp_lru'[1] = bp_call'.page]_vars

\* the pins a call adds to page p (-1: the call takes one back)
PinDelta(c, p) ==
    IF c.page # p THEN 0
    ELSE IF c.op \in {"get", "new_page"} /\ c.rc = "OK" THEN 1
    ELSE IF c.op = "unpin" THEN -1
    ELSE 0

\* C36: a page that carries a pin stays in the pool whatever call runs,
\* invalidate_dirty included, and every call changes the pin count of a page
\* by the pins it hands out or takes back, so that the count is the number
\* of pins not yet given back.
C36_PinsKept ==
    [][\A p \in PageIds :
         /\ (FrameOf(bp_frames, p).pin > 0 /\ PinDelta(bp_call', p) = 0)
               => p \in DOMAIN bp_frames'
         /\ FrameOf(bp_frames', p).pin
               = FrameOf(bp_frames, p).pin + PinDelta(bp_call', p)]_vars

\* the page ids of a chain are different from each other
NoRepeat(chain) ==
    \A i, j \in DOMAIN chain : i # j => chain[i] # chain[j]

\* C37: every buffer page is on the free list or in both the hash table and
\* the LRU list, a page id is cached by one buffer page, and used_count is
\* the number of buffer pages that cache a page.
C37_SlotsAccounted ==
    /\ bp_free + Cardinality(DOMAIN bp_frames) = PoolFrames
    /\ \A p \in DOMAIN bp_frames : bp_frames[p].res
    /\ NoRepeat(bp_lru)
    /\ {bp_lru[i] : i \in DOMAIN bp_lru} = DOMAIN bp_frames
    /\ \A b \in DOMAIN bp_hash :
          /\ NoRepeat(bp_hash[b])
          /\ \A i \in DOMAIN bp_hash[b] : page_hash(bp_hash[b][i], HashSize) = b
    /\ UNION {{bp_hash[b][i] : i \in DOMAIN bp_hash[b]} : b \in DOMAIN bp_hash}
          = DOMAIN bp_frames
    /\ bp_used = Cardinality(DOMAIN bp_frames)

\* invalidate_dirty ran on a pool that had evicted pages and a page that was
\* read back from the file is still cached
C37_Witness ==
    /\ bp_call.op = "invalidate_dirty"
    /\ bp_used > 0
    /\ bp_free > 0
    /\ bp_free + bp_used = PoolFrames

\* ---- the write-ahead log used on its own ------------------------------------
\* wal_call.txn: id of the open transaction (0: none); next_txn: the id the
\* next speedsql_begin hands out; dirty: pages of the pool not yet in the
\* database file; pending: pages the open transaction wrote; expect: the
\* database file with the writes of every committed transaction, in commit
\* order; flushed: a checkpoint flushed the pool; damaged: the log file was
\* changed behind the log's back; lsns: LSN of every record appended;
\* had_records, recovered: set by the last open; used: records of the file
\* the last wal_recover took a COMMIT or ROLLBACK from or applied.
WalState == [wal |-> wal, file |-> wal_file]

Overlay(pages, more) ==
    [p \in DOMAIN pages \cup DOMAIN more |->
        IF p \in DOMAIN more THEN more[p] ELSE pages[p]]

CanAppend ==
    /\ wal.open
    /\ Len(wal_call.lsns) < MaxAppends
    /\ ~wal_call.damaged

\* speedsql_open_v2 with SPEEDSQL_OPEN_WAL on a file database: wal_init, and
\* no other call on the log
wal_open ==
    /\ ~wal.open
    /\ LET s == wal_init(wal_file)
       IN  /\ wal' = s.wal
           /\ wal_file' = s.file
    /\ wal_call' = [wal_call EXCEPT
            !.op = "open", !.dirty = <<>>, !.used = {},
            !.had_records = WalFileSize(wal_file) > WAL_HEADER_SIZE,
            !.recovered = FALSE]
    /\ UNCHANGED <<wal_db, wal_frame>>

\* speedsql_begin: the transaction whose pages go through the log
wal_begin ==
    /\ wal.open
    /\ wal_call.txn = 0
    /\ wal_call.next_txn <= FIRST_TXN_ID + MaxWalTxn
    /\ wal_call' = [wal_call EXCEPT !.op = "begin", !.txn = wal_call.next_txn,
                                    !.next_txn = @ + 1, !.pending = <<>>]
    /\ UNCHANGED <<wal, wal_file, wal_db, wal_frame>>

wal_write(page, after) ==
    /\ CanAppend
    /\ wal_call.txn # 0
    /\ LET lsn == wal.current_lsn
           s   == wal_append_record(
                      [WalState EXCEPT !.wal.current_lsn = lsn + 1],
                      WalRecord(lsn, wal_call.txn, "PAGE", page, after))
       IN  /\ wal' = s.wal
           /\ wal_file' = s.file
           /\ wal_call' = [wal_call EXCEPT
                  !.op = "write", !.lsns = Append(@, lsn),
                  !.dirty = Put(@, page, after),
                  !.pending = Put(@, page, after)]
    /\ UNCHANGED <<wal_db, wal_frame>>

wal_commit ==
    /\ CanAppend
    /\ wal_call.txn # 0
    /\ LET lsn == wal.current_lsn
           s   == wal_flush_buffer(wal_append_record(
                      [WalState EXCEPT !.wal.current_lsn = lsn + 1],
                      WalRecord(lsn, wal_call.txn, "COMMIT", INVALID_PAGE_ID, 0)))
       IN  /\ wal' = s.wal
           /\ wal_file' = s.file
           /\ wal_call' = [wal_call EXCEPT
                  !.op = "commit", !.lsns = Append(@, lsn), !.txn = 0,
                  !.expect = Overlay(@, wal_call.pending),
                  !.pending = <<>>]
    /\ UNCHANGED <<wal_db, wal_frame>>

\* wal_rollback, and buffer_pool_invalidate_dirty of speedsql_rollback
wal_rollback ==
    /\ CanAppend
    /\ wal_call.txn # 0
    /\ LET lsn == wal.current_lsn
           s   == wal_flush_buffer(wal_append_record(
                      [WalState EXCEPT !.wal.current_lsn = lsn + 1],
                      WalRecord(lsn, wal_call.txn, "ROLLBACK", INVALID_PAGE_ID, 0)))
       IN  /\ wal' = s.wal
           /\ wal_file' = s.file
           /\ wal_call' = [wal_call EXCEPT
                  !.op = "rollback", !.lsns = Append(@, lsn), !.txn = 0,
                  !.dirty = <<>>, !.pending = <<>>]
    /\ UNCHANGED <<wal_db, wal_frame>>

\* wal_checkpoint; truncated: file_truncate of the log returned OK
wal_checkpoint(truncated) ==
    /\ CanAppend
    /\ LET lsn == wal.current_lsn
           s1  == wal_flush_buffer(WalState)
           s2  == wal_flush_buffer(wal_append_record(
                      [s1 EXCEPT !.wal.current_lsn = lsn + 1],
                      WalRecord(lsn, 0, "CHECKPOINT", INVALID_PAGE_ID, 0)))
           s3  == wal_write_header([s2 EXCEPT !.wal.checkpoint_lsn = lsn])
           s4  == IF truncated
                  THEN wal_write_header(
                           [s3 EXCEPT !.file.recs = <<>>,
                                      !.wal.current_lsn = s3.wal.checkpoint_lsn + 1])
                  ELSE s3
       IN  /\ wal' = s4.wal
           /\ wal_file' = s4.file
           /\ wal_db' = Overlay(wal_db, wal_call.dirty)
           /\ wal_call' = [wal_call EXCEPT
                  !.op = "checkpoint", !.lsns = Append(@, lsn),
                  !.dirty = <<>>, !.flushed = TRUE]
    /\ UNCHANGED wal_frame

\* wal_recover, called on a log that was just opened
wal_recover ==
    /\ wal.open
    /\ wal_call.op = "open"
    /\ LET size  == WalFileSize(wal_file)
           recs  == wal_file.recs
           taken == wal_scan(recs, 1, size, wal.current_lsn)
           appl  == wal_applied(recs, taken, size)
       IN  IF size <= WAL_HEADER_SIZE
           THEN /\ UNCHANGED <<wal, wal_file, wal_db>>
                /\ wal_call' = [wal_call EXCEPT !.op = "recover", !.used = {},
                                                !.recovered = TRUE]
           ELSE LET s == wal_write_header(
                       [WalState EXCEPT !.wal.checkpoint_lsn = wal.current_lsn])
                IN  /\ wal' = s.wal
                    /\ wal_file' = s.file
                    /\ wal_db' = wal_apply(recs, 1, appl, wal_db)
                    /\ wal_call' = [wal_call EXCEPT
                           !.op = "recover", !.recovered = TRUE,
                           !.used = appl \cup {i \in taken :
                               recs[i].type \in {"COMMIT", "ROLLBACK"}}]
    /\ UNCHANGED wal_frame

wal_close ==
    /\ wal.open
    /\ LET s == wal_write_header(wal_flush_buffer(WalState))
       IN  /\ wal' = NoWal
           /\ wal_file' = s.file
    /\ wal_call' = [wal_call EXCEPT !.op = "close", !.txn = 0, !.dirty = <<>>,
                                    !.pending = <<>>]
    /\ UNCHANGED <<wal_db, wal_frame>>

\* the process ends with the log open: the buffer and the pool are lost and
\* the header of the file stays as it was last written
wal_crash ==
    /\ wal.open
    /\ wal' = NoWal
    /\ wal_call' = [wal_call EXCEPT !.op = "crash", !.txn = 0, !.dirty = <<>>,
                                    !.pending = <<>>]
    /\ UNCHANGED <<wal_file, wal_db, wal_frame>>

\* bytes of PAGE record i of the closed file change: its after image becomes
\* after and its stored checksum no longer matches
wal_damage(i, after) ==
    /\ ~wal.open
    /\ i \in DOMAIN wal_file.recs
    /\ wal_file.recs[i].type = "PAGE"
    /\ wal_file.recs[i].crc_ok
    /\ wal_file.cut = 0
    /\ wal_file' = [wal_file EXCEPT !.recs[i].after = after,
                                    !.recs[i].crc_ok = FALSE]
    /\ wal_call' = [wal_call EXCEPT !.op = "damage", !.damaged = TRUE]
    /\ UNCHANGED <<wal, wal_db, wal_frame>>

\* the closed file loses the last n bytes of its last record
wal_cut(n) ==
    /\ ~wal.open
    /\ wal_file.recs # <<>>
    /\ wal_file.cut = 0
    /\ n < RecordSize(wal_file.recs[Len(wal_file.recs)])
    /\ wal_file' = [wal_file EXCEPT !.cut = n]
    /\ wal_call' = [wal_call EXCEPT !.op = "cut", !.damaged = TRUE]
    /\ UNCHANGED <<wal, wal_db, wal_frame>>

NextWal ==
    \/ wal_open
    \/ wal_begin
    \/ \E p \in WalPages, v \in WalVals : wal_write(p, v)
    \/ wal_commit
    \/ wal_rollback
    \/ \E t \in BOOLEAN : wal_checkpoint(t)
    \/ wal_recover
    \/ wal_close

SpecWal == Init /\ [][NextWal]_vars

NextWalCrash ==
    \/ NextWal
    \/ wal_crash

SpecWalCrash == Init /\ [][NextWalCrash]_vars

\* bytes a cut takes: the checksum of the last record, or all of it but the
\* first bytes of its header
NextWalFault ==
    \/ NextWal
    \/ \E i \in 1..MaxAppends, v \in WalVals : wal_damage(i, v)
    \/ \E n \in {WAL_CHECKSUM_SIZE, WAL_RECORD_HEADER_SIZE} : wal_cut(n)

SpecWalFault == Init /\ [][NextWalFault]_vars

\* C21: after a session that wrote through the log and stopped with no data
\* page flushed, replaying the log leaves the database file as the
\* committed transactions made it, in commit order.
C21_ReplayYieldsCommitted ==
    (wal_call.op = "recover" /\ ~wal_call.flushed /\ ~wal_call.damaged)
        => \A p \in WalPages : PageAt(wal_db, p) = PageAt(wal_call.expect, p)

\* C22: an open with the WAL flag that finds records in the log file has run
\* recovery when it returns.
C22_OpenRecovers ==
    (wal_call.op = "open" /\ wal_call.had_records) => wal_call.recovered

\* C23: recovery takes nothing from a record that is cut short or whose
\* checksum does not match, nor from any record after it.
C23_InvalidRecordStopsScan ==
    wal_call.op = "recover"
        => \A i \in wal_call.used :
               \A j \in 1..i : ~WalInvalid(wal_file, j)

\* C24: the LSNs of the records appended in a run are strictly increasing,
\* across commits, rollbacks, checkpoints with and without truncation, and
\* across close and open of the log.
C24_LsnIncreasing == Increasing(wal_call.lsns)

C24_Witness ==
    /\ Len(wal_call.lsns) = MaxAppends
    /\ wal_call.op = "commit"
    /\ \E i \in DOMAIN wal_file.recs : wal_file.recs[i].lsn < wal_file.checkpoint_lsn
    /\ wal_file.checkpoint_lsn > 0

\* ---- a connection and its prepared statement (SpecSql) ----------------------
\* A read of freed memory ends the process (CRASH) or goes unnoticed.
Alive == st_call.rc # "CRASH"

SqlCall(o, code) ==
    [st_call EXCEPT !.op = o, !.rc = code, !.row = <<>>, !.more = FALSE]

\* speedsql_open_v2, as far as statements see it: an in-memory connection has
\* no file handle; a file connection starts with an empty schema
sql_open(memory, keeps) ==
    /\ Alive
    /\ ~st_conn.open
    /\ st_conn' = [st_conn EXCEPT !.open = TRUE, !.memory = memory,
                                  !.qsort_keeps = keeps]
    /\ st_call' = SqlCall("open", "OK")
    /\ UNCHANGED <<st_stmt, sql_frame>>

\* the first speedsql_step of a statement that is not a SELECT:
\* [rc, conn] after it
step_other(q, c) ==
    IF q.op = "CREATE_TABLE"
    THEN IF c.has_table THEN [rc |-> "ERROR", conn |-> c]
         ELSE IF c.memory THEN [rc |-> "NOMEM", conn |-> c]
         ELSE [rc |-> "DONE", conn |-> [c EXCEPT !.has_table = TRUE]]
    ELSE IF q.op = "INSERT"
    THEN IF ~c.has_table THEN [rc |-> "ERROR", conn |-> c]
         ELSE [rc |-> "DONE", conn |-> [c EXCEPT !.rows = <<q.row>> \o @]]
    ELSE IF q.op = "BEGIN"
    THEN IF c.txn THEN [rc |-> "MISUSE", conn |-> c]
         ELSE [rc |-> "OK", conn |-> [c EXCEPT !.txn = TRUE]]
    ELSE [rc |-> "OK", conn |-> [c EXCEPT !.txn = FALSE]]

\* what the statements of this connection may run: rows are written outside
\* transactions, and transactions are used before table t exists, so that
\* ROLLBACK finds no dirty page to discard
CanRun(q, c) ==
    /\ q.op \in {"CREATE_TABLE", "INSERT"} => ~c.txn
    /\ q.op = "INSERT" => Len(c.rows) < MaxStRows
    /\ q \in TxnSqls => ~c.has_table

\* speedsql_exec of one statement that returns no row: prepare, step,
\* finalize, and, when the statement succeeded, the test of *tail, which
\* points into the SQL copy that speedsql_finalize has freed
sql_exec(q) ==
    /\ Alive
    /\ st_conn.open
    /\ ~st_stmt.live
    /\ CanRun(q, st_conn)
    /\ LET r == step_other(q, st_conn)
       IN  /\ st_conn' = r.conn
           /\ IF r.rc \in {"DONE", "OK"}
              THEN \E code \in {"OK", "CRASH"} : st_call' = SqlCall("exec", code)
              ELSE st_call' = SqlCall("exec", r.rc)
    /\ UNCHANGED <<st_stmt, sql_frame>>

\* speedsql_prepare: the parser numbers the '?' tokens, count_params_in_stmt
\* sizes the parameter array
sql_prepare(q) ==
    /\ Alive
    /\ st_conn.open
    /\ ~st_stmt.live
    /\ st_conn.parsed + count_params_in_stmt(q) <= MaxParsed
    /\ st_stmt' = [live |-> TRUE, sql |-> q,
                   params |-> [k \in 1..count_params_in_stmt(q) |-> 0],
                   pidx |-> ParamIndexes(q, st_conn.parsed),
                   executed |-> FALSE, has_row |-> FALSE, step_count |-> 0,
                   plan |-> "none", cursor |-> 1, buffer |-> <<>>,
                   current |-> 0, inited |-> FALSE, dangling |-> FALSE]
    /\ st_conn' = [st_conn EXCEPT !.parsed = @ + count_params_in_stmt(q)]
    /\ st_call' = [op |-> "prepare", rc |-> "OK", row |-> <<>>, more |-> TRUE,
                   run |-> NoRun, first |-> <<>>, resets |-> 0,
                   bound |-> [k \in 1..count_params_in_stmt(q) |-> 0]]
    /\ UNCHANGED sql_frame

\* speedsql_bind_int(stmt, idx, v), before the first step
sql_bind(idx, v) ==
    /\ Alive
    /\ st_stmt.live
    /\ st_call.run.k = 0 /\ st_call.resets = 0
    /\ IF idx < 1 \/ idx > Len(st_stmt.params)
       THEN /\ st_call' = [st_call EXCEPT !.op = "bind", !.rc = "RANGE"]
            /\ UNCHANGED st_stmt
       ELSE /\ st_stmt' = [st_stmt EXCEPT !.params[idx] = v]
            /\ st_call' = [st_call EXCEPT !.op = "bind", !.rc = "OK",
                                          !.bound[idx] = v]
    /\ UNCHANGED <<st_conn, sql_frame>>

\* the outcomes of one speedsql_step of a SELECT
select_outcomes(s, c) ==
    LET i == IF s.executed THEN [rc |-> "OK", s |-> s]
             ELSE execute_select_init(s, c)
    IN  IF i.rc # "OK" THEN {Out(i.s, i.rc, <<>>, <<>>, FALSE)}
        ELSE execute_select_step(i.s, c.rows, c.qsort_keeps)

Stepped(r) ==
    [st_call EXCEPT
        !.op = "step", !.rc = r.rc,
        !.row = IF r.rc = "ROW" THEN r.row ELSE <<>>,
        !.more = (r.rc = "ROW"),
        !.run = [out  |-> IF r.rc = "ROW" THEN Append(@.out, r.row) ELSE @.out,
                 srcs |-> IF r.rc = "ROW" THEN Append(@.srcs, r.src) ELSE @.srcs,
                 k    |-> @.k + 1],
        !.first = IF st_call.resets = 0
                  THEN Append(@, [rc |-> r.rc,
                                  row |-> IF r.rc = "ROW" THEN r.row ELSE <<>>])
                  ELSE @]

\* speedsql_step, called while the statement has not finished
sql_step ==
    /\ Alive
    /\ st_stmt.live
    /\ st_call.more
    /\ IF st_stmt.sql.op = "SELECT"
       THEN /\ \E r \in select_outcomes(st_stmt, st_conn) :
                   \/ /\ st_stmt' = r.s
                      /\ st_call' = Stepped(r)
                   \/ /\ r.ub
                      /\ st_stmt' = r.s
                      /\ st_call' = Stepped(Out(r.s, "CRASH", <<>>, <<>>, TRUE))
            /\ UNCHANGED st_conn
       ELSE /\ CanRun(st_stmt.sql, st_conn)
            /\ LET r == step_other(st_stmt.sql, st_conn)
               IN  /\ st_conn' = r.conn
                   /\ st_stmt' = [st_stmt EXCEPT !.executed = TRUE]
                   /\ st_call' = Stepped(Out(st_stmt, r.rc, <<>>, <<>>, FALSE))
    /\ UNCHANGED sql_frame

\* speedsql_reset: the flags, the scan cursor, and value_free of every value
\* of current_row
sql_reset ==
    /\ Alive
    /\ st_stmt.live
    /\ st_stmt.sql.op = "SELECT"
    /\ st_call.run.k > 0
    /\ st_call.resets < MaxResets
    /\ st_stmt' = [st_stmt EXCEPT !.executed = FALSE, !.has_row = FALSE,
                                  !.step_count = 0]
    /\ \/ st_call' = [st_call EXCEPT !.op = "reset", !.rc = "OK", !.row = <<>>,
                                     !.more = TRUE, !.run = NoRun,
                                     !.resets = @ + 1]
       \/ /\ st_stmt.inited /\ st_stmt.dangling
          /\ st_call' = [st_call EXCEPT !.op = "reset", !.rc = "CRASH",
                                        !.row = <<>>, !.more = FALSE]
    /\ UNCHANGED <<st_conn, sql_frame>>

\* speedsql_finalize
sql_finalize ==
    /\ Alive
    /\ st_stmt.live
    /\ st_stmt' = NoStmt
    /\ st_call' = [st_call EXCEPT !.op = "finalize", !.rc = "OK", !.row = <<>>,
                                  !.more = FALSE]
    /\ UNCHANGED <<st_conn, sql_frame>>

NextSql ==
    \/ \E memory, keeps \in BOOLEAN : sql_open(memory, keeps)
    \/ \E q \in Execs : sql_exec(q)
    \/ \E q \in Selects \cup Execs : sql_prepare(q)
    \/ \E idx \in 0..2, v \in StVals : sql_bind(idx, v)
    \/ sql_step
    \/ sql_reset
    \/ sql_finalize

SpecSql == Init /\ [][NextSql]_vars

\* ---- the statement claims ----------------------------------------------------
SelectStar == Sel(<<"*">>, TRUE, "none", "none", FALSE, -1, 0)

\* C25: on a connection opened with ":memory:", CREATE TABLE and INSERT return
\* OK from speedsql_exec, and SELECT * returns Row once per inserted row
\* before Done.
C25_MemoryStatementsWork ==
    [][st_conn.memory =>
          /\ \A q \in Execs :
                 (/\ sql_exec(q)
                  /\ \/ q.op = "CREATE_TABLE" /\ ~st_conn.has_table
                     \/ q.op = "INSERT" /\ st_conn.has_table)
                     => st_call'.rc = "OK"
          /\ (/\ sql_step /\ st_stmt.sql = SelectStar /\ st_conn.has_table
              /\ st_call'.rc # "ROW")
                 => (st_call'.rc = "DONE"
                     /\ Len(st_call'.run.out) = Len(st_conn.rows))]_vars

\* C26: the row of SELECT ?, ? holds, at position k, the value most recently
\* bound at index k (NULL when none was), however many '?' were parsed before.
C26_ParamByIndex ==
    (st_call.op = "step" /\ st_call.rc = "ROW" /\ st_stmt.sql.cols = <<"?", "?">>)
        => st_call.row = st_call.bound

\* the codes speedsql_step may return besides Row and Done
StepErrors == {"ERROR", "NOMEM", "MISUSE", "RANGE"}

\* C27: speedsql_step returns Row, Done or an error code, and Done when a
\* statement that is not a SELECT (BEGIN, COMMIT, ROLLBACK included) succeeds.
C27_StepCodes ==
    (st_call.op = "step" /\ st_call.rc # "CRASH")
        => /\ st_call.rc \in {"ROW", "DONE"} \cup StepErrors
           /\ st_stmt.sql.op # "SELECT" => st_call.rc # "ROW"

\* rows of table t that satisfy the WHERE clause of q
Passing(q, rows) ==
    Cardinality({i \in DOMAIN rows : q.where = "a=1" => rows[i][1] = 1})

\* C28: a SELECT with LIMIT n (n >= 0) and OFFSET m has returned Row exactly
\* min(n, max(0, r - m)) times when it returns Done, r being the number of
\* rows that pass WHERE, on the scan and on the ORDER BY path.
C28_LimitOffset ==
    (/\ st_call.op = "step" /\ st_call.rc = "DONE"
     /\ st_stmt.sql.op = "SELECT" /\ st_stmt.sql.limit >= 0)
        => LET r == Passing(st_stmt.sql, st_conn.rows)
               rest == IF r > st_stmt.sql.offset THEN r - st_stmt.sql.offset ELSE 0
           IN  Len(st_call.run.out) = Min(st_stmt.sql.limit, rest)

\* C29: when a SELECT with ORDER BY c has returned Done, the stored rows it
\* returned came in the order of their column c (descending with DESC),
\* whether c is selected or not and wherever it is selected.
C29_OrderByStoredColumn ==
    (/\ st_call.op = "step" /\ st_call.rc = "DONE"
     /\ st_stmt.sql.op = "SELECT" /\ st_stmt.sql.order # "none")
        => \A i, j \in DOMAIN st_call.run.srcs :
               i < j =>
                   LET x == st_call.run.srcs[i][ColIdx(st_stmt.sql.order)]
                       y == st_call.run.srcs[j][ColIdx(st_stmt.sql.order)]
                   IN  IF st_stmt.sql.desc THEN x >= y ELSE x <= y

\* C30: speedsql_reset succeeds, and after it the k-th speedsql_step returns
\* the code and the row the k-th step returned before the reset, the
\* parameters being the ones bound before.
C30_ResetReplays ==
    [][/\ sql_reset => st_call'.rc = "OK"
       /\ (sql_step /\ st_call.resets > 0 /\ st_call'.run.k <= Len(st_call.first))
              => /\ st_call'.rc = st_call.first[st_call'.run.k].rc
                 /\ st_call'.row = st_call.first[st_call'.run.k].row
                 /\ st_stmt'.params = st_stmt.params]_vars


\* ---- two threads on one tree (src/index/btree.cpp) --------------------------
MaxLeafKey == 3   \* keys of the leaf are 1 .. MaxLeafKey

LeafKeys  == 1..MaxLeafKey
CursorOps == {"first", "seek", "next", "key", "value"}

\* the keys of seq, with k taken out
Without(seq, k) == SelectSeq(seq, LAMBDA q : q # k)

\* the keys of seq and k, ascending
WithKey(seq, k) ==
    SelectSeq(seq, LAMBDA q : q < k) \o <<k>> \o SelectSeq(seq, LAMBDA q : q > k)

\* rwlock_wrlock: taken when no thread holds the lock
rwlock_wrlock == ~lk.writer /\ lk.readers = 0

\* rwlock_rdlock: taken when no writer holds the lock
rwlock_rdlock == ~lk.writer

\* btree_insert / btree_delete up to rwlock_wrlock and find_leaf
writer_lock(o, k) ==
    /\ lk.w.pc = "idle"
    /\ rwlock_wrlock
    /\ IF o = "insert" THEN k \notin {lk.leaf.slots[i] : i \in DOMAIN lk.leaf.slots}
       ELSE k \in {lk.leaf.slots[i] : i \in DOMAIN lk.leaf.slots}
    /\ lk' = [lk EXCEPT !.writer = TRUE, !.w = [pc |-> o, key |-> k]]
    /\ UNCHANGED lock_frame

\* insert_into_leaf: the cell is written and its offset put in the array;
\* btree_delete: the offset is taken out of the array
writer_offsets ==
    /\ lk.w.pc \in {"insert", "delete"}
    /\ lk' = [lk EXCEPT
          !.leaf.slots = IF lk.w.pc = "insert" THEN WithKey(@, lk.w.key)
                         ELSE Without(@, lk.w.key),
          !.w.pc = "moved"]
    /\ UNCHANGED lock_frame

\* set_key_count
writer_count ==
    /\ lk.w.pc = "moved"
    /\ lk' = [lk EXCEPT !.leaf.count = Len(lk.leaf.slots), !.w.pc = "counted"]
    /\ UNCHANGED lock_frame

\* buffer_pool_unpin and rwlock_unlock at the end of the call
writer_unlock ==
    /\ lk.w.pc = "counted"
    /\ lk' = [lk EXCEPT !.writer = FALSE, !.w = [pc |-> "idle", key |-> 0]]
    /\ UNCHANGED lock_frame

\* what a thread reads in the leaf now
Seen(o) ==
    [op |-> o, shared |-> lk.readers > 0, count |-> lk.leaf.count,
     slots |-> lk.leaf.slots]

\* btree_find: rwlock_rdlock
find_lock ==
    /\ lk.r = "idle"
    /\ rwlock_rdlock
    /\ lk' = [lk EXCEPT !.readers = @ + 1, !.r = "find"]
    /\ UNCHANGED lock_frame

\* btree_find: search_leaf and the copy of the value
find_read ==
    /\ lk.r = "find"
    /\ lk' = [lk EXCEPT !.r = "found", !.seen = Seen("find")]
    /\ UNCHANGED lock_frame

\* btree_find: rwlock_unlock
find_unlock ==
    /\ lk.r = "found"
    /\ lk' = [lk EXCEPT !.readers = @ - 1, !.r = "idle"]
    /\ UNCHANGED lock_frame

\* btree_cursor_first / seek / next / key / value: the leaf is fetched from
\* the pool and read; tree->lock is not touched
cursor_read(o) ==
    /\ lk.r = "idle"
    /\ lk' = [lk EXCEPT !.seen = Seen(o)]
    /\ UNCHANGED lock_frame

NextLock ==
    \/ \E o \in {"insert", "delete"} : \E k \in LeafKeys : writer_lock(o, k)
    \/ writer_offsets
    \/ writer_count
    \/ writer_unlock
    \/ find_lock
    \/ find_read
    \/ find_unlock
    \/ \E o \in CursorOps : cursor_read(o)

SpecLock == Init /\ [][NextLock]_vars

\* C35: find and every cursor call read the leaf while the thread holds
\* tree->lock in shared mode, and what a cursor call reads is never a leaf in
\* the middle of an insert or delete of another thread (an offset array that
\* key_count does not match).
C35_ReadsUnderSharedLock ==
    lk.seen.op \in CursorOps \cup {"find"} =>
        /\ lk.seen.shared
        /\ Len(lk.seen.slots) = lk.seen.count


\* ---- calls on the database file ----------------------------------------------
\* speedsql_open_v2 on a file: init_new_database when the file is empty,
\* else read_database_header and load_schema
fd_open ==
    /\ ~fd.conn
    /\ IF fd.hdr = NoHeader
       THEN fd' = [fd EXCEPT !.conn = TRUE,
                      !.hdr = WrittenHeader(1, INVALID_PAGE_ID),
                      !.tbl = NoTable, !.buf = NoBuf, !.key = NoKey,
                      !.last_rowid = 0, !.txn = FALSE, !.sp = -1,
                      !.call = FdCall("open", "OK")]
       ELSE LET code == read_database_header(fd.hdr)
            IN  IF code # "OK"
                THEN fd' = [fd EXCEPT
                        !.call = [FdCall("open", code) EXCEPT !.existing = TRUE]]
                ELSE fd' = [fd EXCEPT !.conn = TRUE,
                        !.tbl = load_schema(fd.hdr, fd.pages),
                        !.buf = NoBuf, !.key = NoKey, !.last_rowid = 0,
                        !.txn = FALSE, !.sp = -1,
                        !.call = [FdCall("open", "OK") EXCEPT !.existing = TRUE]]
    /\ UNCHANGED file_frame

\* CREATE TABLE t: btree_create takes the root page from buffer_pool_new_page,
\* whose id is the size of the file in pages
fd_create_table ==
    /\ fd.conn
    /\ fd.tbl = NoTable
    /\ LET new_page_id == 1 + Len(fd.pages)
       IN  fd' = [fd EXCEPT
              !.pages = Append(@, FdBlock(fd.key, FdPage("zero", <<>>, 0))),
              !.buf = [res |-> TRUE, dirty |-> TRUE, data |-> FdPage("leaf", <<>>, 0)],
              !.tbl = [root |-> new_page_id],
              !.call = [FdCall("create", "DONE") EXCEPT !.page = new_page_id]]
    /\ UNCHANGED file_frame

\* INSERT INTO t: execute_insert takes the row id from ++last_rowid, then
\* btree_insert looks for the leaf
fd_insert ==
    /\ fd.conn
    /\ fd.tbl # NoTable
    /\ fd.last_rowid < MaxFdRowid
    /\ LET r == read_root(fd)
           rowid == fd.last_rowid + 1
           io == [FdCall("insert", "IOERR") EXCEPT
                     !.read = r.read, !.wkey = r.wkey, !.rkey = fd.key]
       IN  IF r.read = "CORRUPT" \/ r.data.kind # "leaf"
           THEN fd' = [fd EXCEPT !.last_rowid = rowid, !.buf = got_root(fd, r),
                                 !.call = io]
           ELSE /\ Len(r.data.rows) < MaxFdRows
                /\ fd' = [fd EXCEPT !.last_rowid = rowid,
                          !.buf = [res |-> TRUE, dirty |-> TRUE,
                                   data |-> FdPage("leaf", <<rowid>> \o r.data.rows, 0)],
                          !.call = [io EXCEPT !.rc = "DONE", !.rows = <<rowid>>]]
    /\ UNCHANGED file_frame

\* SELECT ... FROM t stepped to the end: the rows of the scan
fd_select ==
    /\ fd.conn
    /\ fd.tbl # NoTable
    /\ LET r == read_root(fd)
       IN  fd' = [fd EXCEPT !.buf = got_root(fd, r),
                     !.call = [FdCall("select", "DONE") EXCEPT
                                  !.read = r.read, !.wkey = r.wkey,
                                  !.rkey = fd.key, !.rows = FdRows]]
    /\ UNCHANGED file_frame

fd_begin ==
    /\ fd.conn
    /\ ~fd.txn
    /\ fd' = [fd EXCEPT !.txn = TRUE, !.sp = -1, !.call = FdCall("begin", "OK")]
    /\ UNCHANGED file_frame

fd_commit ==
    /\ fd.conn
    /\ fd.txn
    /\ fd' = [fd EXCEPT !.txn = FALSE, !.sp = -1, !.call = FdCall("commit", "OK")]
    /\ UNCHANGED file_frame

fd_savepoint ==
    /\ fd.conn
    /\ fd.txn
    /\ fd.sp = -1
    /\ fd' = [fd EXCEPT !.sp = fd.last_rowid, !.call = FdCall("savepoint", "OK")]
    /\ UNCHANGED file_frame

fd_rollback_to ==
    /\ fd.conn
    /\ fd.sp # -1
    /\ fd' = [fd EXCEPT !.buf = fd_invalidate_dirty(@), !.last_rowid = fd.sp,
                        !.call = FdCall("rollback_to", "OK")]
    /\ UNCHANGED file_frame

fd_rollback ==
    /\ fd.conn
    /\ fd.txn
    /\ fd' = [fd EXCEPT !.buf = fd_invalidate_dirty(@), !.txn = FALSE,
                        !.sp = -1, !.call = FdCall("rollback", "OK")]
    /\ UNCHANGED file_frame

\* speedsql_key: a random salt, the key derived from password and salt, a
\* new cipher context handed to the pool
fd_key(pw, salt) ==
    /\ fd.conn
    /\ fd' = [fd EXCEPT !.key = speedsql_derive_key(pw, salt),
                        !.call = FdCall("key", "OK")]
    /\ UNCHANGED file_frame

\* CREATE TABLE for as many other tables as the cache has buffer pages: the
\* root page of t becomes the victim of get_victim, which writes it back if
\* dirty
fd_fill_cache ==
    /\ fd.conn
    /\ fd.buf.res
    /\ fd' = [fd EXCEPT
          !.pages = IF fd.buf.dirty
                    THEN [@ EXCEPT ![fd.tbl.root] = FdBlock(fd.key, fd.buf.data)]
                    ELSE @,
          !.buf = NoBuf,
          !.call = FdCall("fill_cache", "DONE")]
    /\ UNCHANGED file_frame

\* speedsql_close: save_schema writes the schema page and the header to the
\* file, then buffer_pool_flush writes the dirty pages of the cache
fd_close ==
    /\ fd.conn
    /\ LET saved == IF fd.tbl = NoTable THEN fd.pages
                    ELSE [fd.pages EXCEPT ![SCHEMA_PAGE] =
                             FdBlock(NoKey, FdPage("schema", <<>>, fd.tbl.root))]
           flushed == IF fd.buf.res /\ fd.buf.dirty
                      THEN [saved EXCEPT ![fd.tbl.root] = FdBlock(fd.key, fd.buf.data)]
                      ELSE saved
       IN  fd' = [fd EXCEPT !.conn = FALSE,
              !.hdr = IF fd.tbl = NoTable THEN @
                      ELSE WrittenHeader(IF @.page_count < 2 THEN 2 ELSE @.page_count,
                                         SCHEMA_PAGE),
              !.pages = flushed,
              !.buf = NoBuf, !.key = NoKey, !.txn = FALSE, !.sp = -1,
              !.closed = [tbl |-> fd.tbl, rows |-> FdRows, key |-> fd.key],
              !.call = FdCall("close", "OK")]
    /\ UNCHANGED file_frame

\* another program changes one part of the header of the closed file
fd_damage(part, v) ==
    /\ ~fd.conn
    /\ fd.hdr # NoHeader
    /\ ~fd.damaged
    /\ fd' = [fd EXCEPT
          !.hdr = CASE part = "magic"   -> [@ EXCEPT !.magic = "other"]
                    [] part = "version" -> [@ EXCEPT !.version = v]
                    [] OTHER            -> [@ EXCEPT !.checksum = <<"other">>],
          !.damaged = TRUE,
          !.call = FdCall("damage", "OK")]
    /\ UNCHANGED file_frame

NextFile ==
    \/ fd_open
    \/ fd_create_table
    \/ fd_insert
    \/ fd_select
    \/ fd_begin
    \/ fd_commit
    \/ fd_savepoint
    \/ fd_rollback_to
    \/ fd_rollback
    \/ \E pw \in Passwords : \E salt \in Salts : fd_key(pw, salt)
    \/ fd_fill_cache
    \/ fd_close
    \/ \E part \in HeaderParts : \E v \in Versions \ {DB_VERSION} : fd_damage(part, v)

SpecFile == Init /\ [][NextFile]_vars


\* C31: a table that exists at close exists after the file is opened again,
\* at the same root page and with the same rows.
C31_TablesSurviveReopen ==
    (/\ fd.call.op = "open" /\ fd.call.existing
     /\ ~fd.damaged
     /\ fd.closed.tbl # NoTable) =>
        /\ fd.call.rc = "OK"
        /\ fd.tbl = fd.closed.tbl
        /\ FdRows = fd.closed.rows

\* the header holds the magic and the checksum the engine writes and a
\* version the engine supports
HeaderValid(h) ==
    /\ h.magic = DB_MAGIC_HEAD
    /\ h.version <= DB_VERSION
    /\ h.checksum = header_crc(h)

\* C32: open on a file that is not empty returns OK when magic, version and
\* checksum of the header are valid, and Corrupt when one of them is not; a
\* file the engine made and closed is accepted.
C32_OpenChecksHeader ==
    (fd.call.op = "open" /\ fd.call.existing) =>
        /\ HeaderValid(fd.hdr) => fd.call.rc = "OK"
        /\ ~HeaderValid(fd.hdr) => fd.call.rc = "CORRUPT"
        /\ ~fd.damaged => fd.call.rc = "OK"

\* C33: a file closed under key(pw) is opened again, and a page written
\* under key(pw) is read back from the file when the cipher context in use
\* was made by key with the same password, while the read fails with Corrupt
\* without a key or with another password.
C33_SamePasswordReads ==
    /\ (/\ fd.call.op = "open" /\ fd.call.existing
         /\ ~fd.damaged
         /\ fd.closed.key # NoKey) => fd.call.rc = "OK"
    /\ (/\ fd.call.op \in {"select", "insert"}
         /\ fd.call.read \in {"OK", "CORRUPT"}
         /\ fd.call.wkey # NoKey) =>
            IF fd.call.rkey # NoKey /\ fd.call.rkey[1] = fd.call.wkey[1]
            THEN fd.call.read = "OK"
            ELSE fd.call.read = "CORRUPT"

\* C38: the page id new_page returns for the root of a table is neither the
\* header page nor the page the schema is written to at close.
C38_NewPageNotReserved ==
    fd.call.op = "create" => fd.call.page \notin {0, SCHEMA_PAGE}

\* C39: the rows stored in t have row ids different from each other, after
\* inserts, failed inserts, rollback, rollback_to, close and open.
C39_RowidsDistinct == NoRepeat(FdRows)

====
